---- MODULE Spec2Model ----
(***************************************************************************)
(* wb-analytics: the chunked-fetch / pagination / report-workflow /        *)
(* idempotent-upsert pipeline, modelled as a family of sequential state    *)
(* machines.  Every machine owns a group of variables; a specification     *)
(* starts one machine and keeps the others idle, so that each machine is   *)
(* explored on its own.                                                    *)
(*                                                                         *)
(*   retry    src/utils/retry.py          retry_on_exception.wrapper       *)
(*   report   src/connectors/ozon_performance.py  fetch_campaign_product_stats*)
(*   page     src/connectors/wb.py        fetch_search_report_all          *)
(*   chunk    src/connectors/wb.py        the *_chunked fetches            *)
(*   sink     src/etl/main.py             the batched upsert loops         *)
(*   day      src/etl/main.py             the per-day pipeline loops       *)
(*   sanitize src/etl/main.py             sanitize_records                 *)
(*   entry    src/connectors/*.py         fetch_data, validate_connection  *)
(*   token    src/connectors/ozon_performance.py  _get_access_token        *)
(*   tag      src/agents/daily_sql_agent.py  _tag                          *)
(*   texts    src/etl/main.py             run_search_texts_pipeline        *)
(*   main     src/etl/main.py             main                             *)
(*   rerun    src/etl/main.py             two runs over one window         *)
(*   load     src/etl/main.py             records to upsert calls          *)
(*   share    src/connectors/ozon_performance.py  two callers of one connector*)
(*   analytics src/etl/main.py            run_ozon_analytics_pipeline      *)
(*   pace     src/connectors/wb.py        fetch_product_search_texts_chunked*)
(*   dedup    src/etl/main.py             one record per conflict key      *)
(*   adverts  src/etl/main.py             run_adverts_settings_pipeline    *)
(*   order    src/etl/main.py             search report before search texts*)
(***************************************************************************)
EXTENDS Integers, Sequences, FiniteSets, TLC

VARIABLES
    \* ---- retry_on_exception.wrapper (src/utils/retry.py) ----
    r_pc,            \* "idle" | "loop" | "returned" | "raised"
    max_retries,     \* decorator argument
    delay_seconds,   \* decorator argument
    backoff_factor,  \* decorator argument
    attempt,         \* local of wrapper
    current_delay,   \* local of wrapper
    r_calls,         \* outcome of every invocation of func, in order
    r_warnings,      \* attempt numbers of the logger.warning lines
    r_errors,        \* number of logger.error lines
    r_sleeps,        \* argument of every time.sleep, in order
    r_result,        \* what the wrapper returned or raised
    \* ---- OzonPerformanceConnector.fetch_campaign_product_stats ----
    w_pc,            \* "idle" | "create" | "check" | "download" | "returned" | "raised"
    max_wait_seconds,\* argument
    poll_interval,   \* argument
    uuid,            \* job id returned by create_statistics_report
    w_elapsed,       \* time.time() - start_time
    w_submits,       \* number of create-report POST requests
    w_polls,         \* number of check_report_status calls
    w_polled,        \* job id of the last status poll
    state,           \* state returned by the last status poll
    w_downloads,     \* job id of every download_report call, in order
    w_error,         \* the exception raised by the workflow
    \* ---- WBConnector.fetch_search_report_all (src/connectors/wb.py) ----
    p_pc,            \* "idle" | "loop" | "returned" | "raised"
    p_src,           \* the page source: size of the page answered to the i-th request
    offset,          \* local of fetch_search_report_all
    page,            \* local of fetch_search_report_all
    all_groups,      \* local of fetch_search_report_all
    p_requests,      \* offset of every fetch_search_report call, in order
    p_sleeps,        \* number of time.sleep(sleep_seconds) calls
    \* ---- chunked fetches (src/connectors/wb.py) and the campaign batches of
    \* ---- run_ozon_performance_pipeline (src/etl/main.py) ----
    c_pc,            \* "idle" | "start" | "loop" | "returned" | "raised"
    c_kind,          \* which chunked loop runs
    c_keys,          \* advert_ids | nm_ids | items | campaign_ids
    chunk_size,      \* chunk_size argument (batch_size_api for the campaign batches)
    chunks,          \* the chunk plan
    c_idx,           \* number of chunks handled so far
    c_requests,      \* key list of every HTTP request (report request), in order
    c_results,       \* results | all_items | all_stats | records upserted
    c_logged,        \* chunk numbers of the error lines logged
    c_rejected,      \* chunk numbers refused for carrying too many keys
    c_sleeps,        \* number of time.sleep(sleep_seconds) calls
    c_error,         \* the exception that reached the caller
    c_outcomes,      \* what each campaign batch came to, in order
    \* ---- the batch-upsert loop of a pipeline (src/etl/main.py) and the sink ----
    s_pc,            \* "idle" | "start" | "loop" | "done" | "failed"
    records,         \* valid_records: the records to upsert
    batch_size,      \* settings.BATCH_SIZE
    s_i,             \* loop variable i of range(0, len(records), batch_size)
    s_calls,         \* the batch of every upsert call of this run, in order
    table,           \* rows of the destination table
    s_last,          \* per key, the value of the most recently applied record
    \* ---- the per-day loop of a WB pipeline (src/etl/main.py) ----
    d_pc,            \* "idle" | "loop" | "done"
    date_from,       \* argument: first day of the window
    date_to,         \* argument: last day of the window
    d_batch_size,    \* settings.BATCH_SIZE of this run
    current_date,    \* the loop variable
    total_records,   \* counter reported in the completion line
    d_visited,       \* the days of the "Processing ... for {day}" lines, in order
    d_errors,        \* the days of the "Failed to process {day}" lines, in order
    d_outcomes,      \* what each iteration came to, in order
    d_sleeps,        \* number of time.sleep(settings.SLEEP_SECONDS) calls
    \* ---- sanitize_records (src/etl/main.py) ----
    z_pc,            \* "idle" | "start" | "once" | "twice"
    z_records,       \* argument: the record list
    z_out,           \* the results of the successive sanitize_records calls
    \* ---- fetch_data and validate_connection of the connectors ----
    f_pc,            \* "idle" | "call" | "returned" | "raised"
    f_op,            \* "fetch_data" | "validate_connection"
    f_connector,     \* "wb" | "ozon" | "ozon_performance"
    endpoint,        \* argument of fetch_data
    f_keys,          \* the key list among the keyword arguments, or Absent
    f_failure,       \* how the remote side fails during this call
    f_requests,      \* the HTTP requests issued, in order
    f_result,        \* the value returned
    f_error,         \* the exception raised
    \* ---- the token cache of OzonPerformanceConnector ----
    t_pc,            \* "idle" | "ready"
    now,             \* datetime.now(), in minutes
    access_token,    \* self.access_token: 0 for None, else the n-th token issued
    token_expires_at,\* self.token_expires_at, in minutes (0 while None)
    t_calls,         \* number of _get_headers calls so far
    t_token_requests,\* number of POSTs to TOKEN_URL so far
    t_last,          \* what the last _get_headers call saw and did
    \* ---- _tag (src/agents/daily_sql_agent.py) ----
    g_pc,            \* "idle" | "call" | "returned"
    g_row,           \* argument r: the row
    g_tag,           \* the tag returned
    \* ---- run_search_texts_pipeline (src/etl/main.py) ----
    x_pc,            \* "idle" | "loop" | "done"
    x_from,          \* argument date_from
    x_to,            \* argument date_to
    x_date,          \* current_date
    x_total,         \* total_records
    x_iters,         \* what each iteration read and did, in order
    x_log,           \* the log lines that name a day, in order
    \* ---- main (src/etl/main.py) ----
    m_pc,            \* "idle" | "start" | "run" | "done" | "raised"
    OVERLAP_DAYS,    \* settings.OVERLAP_DAYS
    SPP_OVERLAP_DAYS,\* settings.SPP_OVERLAP_DAYS
    m_date_from,     \* date_from of main
    m_date_to,       \* date_to of main
    m_next,          \* position in main's pipeline order of the next flag test
    m_started,       \* the pipelines started, with their windows, in order
    m_error,         \* the exception main re-raised
    \* ---- two runs over one window against the same table (src/etl/main.py) ----
    v_pc,            \* "idle" | "first" | "interrupted" | "completed" | "second" | "done" | "failed"
    v_base,          \* rows of the table before the first run
    v_records,       \* the records of the window, as both runs obtain them
    v_extra,         \* the records of the days only the later window covers
    v_batch_size,    \* settings.BATCH_SIZE
    v_i,             \* loop variable i of the running upsert loop
    v_applied,       \* number of batches the first run had upserted when it stopped
    v_table,         \* rows of the destination table
    \* ---- from the transformed records to the upsert calls (src/etl/main.py) ----
    u_pc,            \* "idle" | "transformed" | "loop" | "done"
    u_pipeline,      \* the pipeline that runs
    u_transformed,   \* the records the transformation stage returned
    u_records,       \* the list the upsert loop slices
    u_batch_size,    \* settings.BATCH_SIZE
    u_i,             \* loop variable i of the upsert loop
    u_upserts,       \* the batches passed to upsert, in call order
    \* ---- two callers inside _get_access_token (src/connectors/ozon_performance.py) ----
    q_pc,            \* per caller: "idle" | "out" | "check" | "post" | "answered" | "token_stored" | "done" | "raised"
    q_token,         \* self.access_token: 0 for None, else the n-th token issued
    q_expires,       \* self.token_expires_at, in minutes (0 while None)
    q_requests,      \* number of POSTs to TOKEN_URL so far
    q_answer,        \* per caller: how its POST ended ("none" before it)
    q_expires_in,    \* per caller: the expires_in of its answer, in minutes
    q_issued,        \* per caller: the token its answer carries (0 for none)
    q_got,           \* per caller: the token the call returned (0 for none)
    q_order,         \* the callers in the order they entered
    q_overlap,       \* whether both callers were inside the method at one time
    \* ---- the page loop of run_ozon_analytics_pipeline (src/etl/main.py) ----
    a_pc,            \* "idle" | "loop" | "fetched" | "raised"
    a_data,          \* the items the API holds for the window: the number of dimensions of each
    a_limit,         \* limit
    a_offset,        \* offset
    a_requests,      \* the offsets requested, in order
    a_returned,      \* the number of items of each returned page, in order
    a_all_records,   \* all_records: the positions in a_data of the records collected
    a_sleeps,        \* number of time.sleep(1) calls
    \* ---- requests and sleeps of fetch_product_search_texts_chunked (src/connectors/wb.py) ----
    e_pc,            \* "idle" | "loop" | "returned" | "raised"
    e_chunks,        \* len(chunks)
    e_idx,           \* idx of the chunk being fetched
    e_attempt,       \* attempt of the retry wrapper around the current fetch
    e_sleep_seconds, \* sleep_seconds
    e_events,        \* the HTTP requests and the sleeps, in order
    \* ---- one record per conflict key: run_spp_pipeline, run_adverts_settings_pipeline (src/etl/main.py) ----
    k_pc,            \* "idle" | "fetched" | "loop" | "done"
    k_pipeline,      \* "spp" | "adverts_settings"
    k_raw,           \* the orders of the day / the flattened advert rows, as fetched
    k_records,       \* the list the upsert loop slices
    k_batch_size,    \* settings.BATCH_SIZE
    k_i,             \* loop variable i of the upsert loop
    k_upserts,       \* the batches passed to upsert, in call order
    \* ---- run_adverts_settings_pipeline (src/etl/main.py) ----
    b_pc,            \* "idle" | "start" | "delete" | "upsert" | "returned" | "completed" | "raised"
    b_before,        \* rows of the adverts table before the run
    b_table,         \* rows of the adverts table
    b_rows,          \* the keys of the transformed rows
    b_batch_size,    \* settings.BATCH_SIZE
    b_i,             \* loop variable i of the upsert loop
    b_calls,         \* the calls made on the adverts table, in order
    b_error,         \* where the exception that left the pipeline was raised
    \* ---- main(): search report, then search texts (src/etl/main.py) ----
    o_pc,            \* "idle" | "main" | "search_report" | "search_texts" | "done"
    o_run_report,    \* settings.RUN_SEARCH_REPORT
    o_run_texts,     \* settings.RUN_SEARCH_TEXTS
    o_from,          \* date_from handed to both pipelines
    o_to,            \* date_to handed to both pipelines
    o_stage,         \* which of the two flag tests main has reached
    o_current,       \* current_date of the pipeline that runs
    o_table,         \* days that have rows in the search report table
    o_events         \* the calls on the sink and the returns, in order

retryVars == <<r_pc, max_retries, delay_seconds, backoff_factor, attempt,
               current_delay, r_calls, r_warnings, r_errors, r_sleeps, r_result>>

reportVars == <<w_pc, max_wait_seconds, poll_interval, uuid, w_elapsed, w_submits,
                w_polls, w_polled, state, w_downloads, w_error>>

pageVars == <<p_pc, p_src, offset, page, all_groups, p_requests, p_sleeps>>

chunkVars == <<c_pc, c_kind, c_keys, chunk_size, chunks, c_idx, c_requests,
               c_results, c_logged, c_rejected, c_sleeps, c_error, c_outcomes>>

sinkVars == <<s_pc, records, batch_size, s_i, s_calls, table, s_last>>

dayVars == <<d_pc, date_from, date_to, d_batch_size, current_date,
             total_records, d_visited, d_errors, d_outcomes, d_sleeps>>

sanVars == <<z_pc, z_records, z_out>>

entryVars == <<f_pc, f_op, f_connector, endpoint, f_keys, f_failure,
               f_requests, f_result, f_error>>

tokenVars == <<t_pc, now, access_token, token_expires_at, t_calls,
               t_token_requests, t_last>>

tagVars == <<g_pc, g_row, g_tag>>

textsVars == <<x_pc, x_from, x_to, x_date, x_total, x_iters, x_log>>

mainVars == <<m_pc, OVERLAP_DAYS, SPP_OVERLAP_DAYS, m_date_from, m_date_to,
               m_next, m_started, m_error>>

rerunVars == <<v_pc, v_base, v_records, v_extra, v_batch_size, v_i, v_applied,
                v_table>>

loadVars == <<u_pc, u_pipeline, u_transformed, u_records, u_batch_size, u_i,
               u_upserts>>

shareVars == <<q_pc, q_token, q_expires, q_requests, q_answer, q_expires_in,
                q_issued, q_got, q_order, q_overlap>>

analyticsVars == <<a_pc, a_data, a_limit, a_offset, a_requests, a_returned,
                    a_all_records, a_sleeps>>

paceVars == <<e_pc, e_chunks, e_idx, e_attempt, e_sleep_seconds, e_events>>

dedupVars == <<k_pc, k_pipeline, k_raw, k_records, k_batch_size, k_i, k_upserts>>

advertsVars == <<b_pc, b_before, b_table, b_rows, b_batch_size, b_i, b_calls,
                  b_error>>

orderVars == <<o_pc, o_run_report, o_run_texts, o_from, o_to, o_stage,
                o_current, o_table, o_events>>

vars == <<retryVars, reportVars, pageVars, chunkVars, sinkVars, dayVars,
         sanVars, entryVars, tokenVars, tagVars, textsVars, mainVars,
         rerunVars, loadVars, shareVars, analyticsVars, paceVars,
         dedupVars, advertsVars, orderVars>>

None == [kind |-> "none"]

(***************************************************************************)
(* Bounds of the model.                                                    *)
(***************************************************************************)
MaxRetries == 3
MaxDelay == 3
MaxBackoff == 2
MaxWait == 3           \* max_wait_seconds ranges over 0..MaxWait
MaxPollInterval == 2   \* poll_interval ranges over 1..MaxPollInterval
MaxPollDuration == 1   \* one check_report_status call lasts 0..MaxPollDuration
MaxJobs == 2           \* job ids the API may hand out
MaxPages == 3          \* pages the page source holds
MaxChunks == 3         \* chunks a key list is split into
MaxSmallChunk == 2     \* small chunk sizes range over 1..MaxSmallChunk
MaxRecords == 3        \* records one pipeline run hands to the upsert loop
MaxBatch == 2          \* settings.BATCH_SIZE ranges over 1..MaxBatch
MaxDay == 3            \* days of a window range over 1..MaxDay
MaxDayRecords == 2     \* records one day's fetch yields
MaxSanLen == 2         \* records in a list handed to sanitize_records
MaxEntryKeys == 2      \* keys in the key list handed to fetch_data
MaxTime == 12          \* the clock runs over 0..MaxTime minutes
MaxTick == 3           \* minutes that pass between two calls: 1..MaxTick
MaxTokenCalls == 4     \* _get_headers calls of one connector instance
MaxTextDays == 3       \* days of the window of run_search_texts_pipeline
MaxRerunRecords == 2   \* records of the window that is run twice
MaxOverlap == 2        \* OVERLAP_DAYS and SPP_OVERLAP_DAYS range over 0..MaxOverlap
MaxOrders == 2         \* orders of one day in the orders response
MaxAdvertRows == 3     \* rows flattened from the adverts response
MaxLimit == 2          \* limit of the analytics page loop ranges over 1..MaxLimit
MaxItems == 4          \* items the analytics API holds for the window
MaxWindow == 2         \* days of the window of the two search pipelines

(***************************************************************************)
(* The state of a machine that is not running.                             *)
(***************************************************************************)
RetryIdle ==
    /\ r_pc = "idle"
    /\ max_retries = 0
    /\ delay_seconds = 0
    /\ backoff_factor = 0
    /\ attempt = 0
    /\ current_delay = 0
    /\ r_calls = <<>>
    /\ r_warnings = <<>>
    /\ r_errors = 0
    /\ r_sleeps = <<>>
    /\ r_result = None

ReportIdle ==
    /\ w_pc = "idle"
    /\ max_wait_seconds = 0
    /\ poll_interval = 0
    /\ uuid = 0
    /\ w_elapsed = 0
    /\ w_submits = 0
    /\ w_polls = 0
    /\ w_polled = 0
    /\ state = "UNKNOWN"
    /\ w_downloads = <<>>
    /\ w_error = None

PageIdle ==
    /\ p_pc = "idle"
    /\ p_src = <<>>
    /\ offset = 0
    /\ page = 0
    /\ all_groups = <<>>
    /\ p_requests = <<>>
    /\ p_sleeps = 0

ChunkIdle ==
    /\ c_pc = "idle"
    /\ c_kind = "none"
    /\ c_keys = <<>>
    /\ chunk_size = 0
    /\ chunks = <<>>
    /\ c_idx = 0
    /\ c_requests = <<>>
    /\ c_results = <<>>
    /\ c_logged = <<>>
    /\ c_rejected = {}
    /\ c_sleeps = 0
    /\ c_error = None
    /\ c_outcomes = <<>>

\* Dates, skus and field values of the records of the modelled table.
Dates == {1, 2}
Skus == {1, 2}
Vals == {"a", "b"}
TableKeys == Dates \X Skus

SinkIdle ==
    /\ s_pc = "idle"
    /\ records = <<>>
    /\ batch_size = 0
    /\ s_i = 0
    /\ s_calls = <<>>
    /\ table = {}
    /\ s_last = [k \in TableKeys |-> "never"]

DayIdle ==
    /\ d_pc = "idle"
    /\ date_from = 0
    /\ date_to = 0
    /\ d_batch_size = 0
    /\ current_date = 0
    /\ total_records = 0
    /\ d_visited = <<>>
    /\ d_errors = <<>>
    /\ d_outcomes = <<>>
    /\ d_sleeps = 0

SanIdle ==
    /\ z_pc = "idle"
    /\ z_records = <<>>
    /\ z_out = <<>>

EntryIdle ==
    /\ f_pc = "idle"
    /\ f_op = "none"
    /\ f_connector = "none"
    /\ endpoint = "none"
    /\ f_keys = [given |-> FALSE, ids |-> <<>>]
    /\ f_failure = "none"
    /\ f_requests = <<>>
    /\ f_result = None
    /\ f_error = None

\* No _get_headers call has been made yet.
NoCall ==
    [called |-> FALSE, had |-> FALSE, left |-> 0, requested |-> FALSE,
     sent |-> FALSE, token |-> 0, header_left |-> 0, answer |-> "none"]

TokenIdle ==
    /\ t_pc = "idle"
    /\ now = 0
    /\ access_token = 0
    /\ token_expires_at = 0
    /\ t_calls = 0
    /\ t_token_requests = 0
    /\ t_last = NoCall

\* A field of a row: absent from the dict, None, NaN, or a number.
NoField == [kind |-> "missing"]
NullField == [kind |-> "none"]
NanField == [kind |-> "nan"]
Num(n) == [kind |-> "num", n |-> n]

TagIdle ==
    /\ g_pc = "idle"
    /\ g_row = [drr_percent |-> NoField, revenue_total |-> NoField, ad_orders |-> NoField]
    /\ g_tag = "none"

TextsIdle ==
    /\ x_pc = "idle"
    /\ x_from = 0
    /\ x_to = 0
    /\ x_date = 0
    /\ x_total = 0
    /\ x_iters = <<>>
    /\ x_log = <<>>

MainIdle ==
    /\ m_pc = "idle"
    /\ OVERLAP_DAYS = 0
    /\ SPP_OVERLAP_DAYS = 0
    /\ m_date_from = 0
    /\ m_date_to = 0
    /\ m_next = 0
    /\ m_started = <<>>
    /\ m_error = None

RerunIdle ==
    /\ v_pc = "idle"
    /\ v_base = {}
    /\ v_records = <<>>
    /\ v_extra = <<>>
    /\ v_batch_size = 0
    /\ v_i = 0
    /\ v_applied = 0
    /\ v_table = {}

LoadIdle ==
    /\ u_pc = "idle"
    /\ u_pipeline = "none"
    /\ u_transformed = <<>>
    /\ u_records = <<>>
    /\ u_batch_size = 0
    /\ u_i = 0
    /\ u_upserts = <<>>

ShareIdle ==
    /\ q_pc = [c \in {1, 2} |-> "idle"]
    /\ q_token = 0
    /\ q_expires = 0
    /\ q_requests = 0
    /\ q_answer = [c \in {1, 2} |-> "none"]
    /\ q_expires_in = [c \in {1, 2} |-> 0]
    /\ q_issued = [c \in {1, 2} |-> 0]
    /\ q_got = [c \in {1, 2} |-> 0]
    /\ q_order = <<>>
    /\ q_overlap = FALSE

AnalyticsIdle ==
    /\ a_pc = "idle"
    /\ a_data = <<>>
    /\ a_limit = 0
    /\ a_offset = 0
    /\ a_requests = <<>>
    /\ a_returned = <<>>
    /\ a_all_records = <<>>
    /\ a_sleeps = 0

PaceIdle ==
    /\ e_pc = "idle"
    /\ e_chunks = 0
    /\ e_idx = 0
    /\ e_attempt = 0
    /\ e_sleep_seconds = 0
    /\ e_events = <<>>

DedupIdle ==
    /\ k_pc = "idle"
    /\ k_pipeline = "none"
    /\ k_raw = <<>>
    /\ k_records = <<>>
    /\ k_batch_size = 0
    /\ k_i = 0
    /\ k_upserts = <<>>

AdvertsIdle ==
    /\ b_pc = "idle"
    /\ b_before = {}
    /\ b_table = {}
    /\ b_rows = <<>>
    /\ b_batch_size = 0
    /\ b_i = 0
    /\ b_calls = <<>>
    /\ b_error = "none"

OrderIdle ==
    /\ o_pc = "idle"
    /\ o_run_report = FALSE
    /\ o_run_texts = FALSE
    /\ o_from = 0
    /\ o_to = 0
    /\ o_stage = 0
    /\ o_current = 0
    /\ o_table = {}
    /\ o_events = <<>>

(***************************************************************************)
(* retry_on_exception                                                      *)
(***************************************************************************)
\* What one invocation of func does: it returns, raises an exception whose
\* type is among exception_types, or raises an exception of another type.
FuncOutcomes == {"ok", "declared", "other"}

\* The value returned / the exception raised by the n-th invocation of func.
FuncValue(n) == [kind |-> "value", call |-> n]
FuncException(type, n) == [kind |-> type, call |-> n]

\* while attempt < max_retries
RetryLoopCondition(a, m) == a < m

\* Mutants of RetryGiveUp: giving up one failure early, and never giving up.
RetryGiveUpEarly(a, m) == a + 1 >= m
RetryGiveUpLate(a, m) == a > m

\* if attempt >= max_retries: logger.error(...); raise
RetryGiveUp(a, m) == a >= m

\* Mutant of NextDelay: the delay grows by addition.
NextDelayAdd(d, b) == d + b

\* current_delay *= backoff_factor
NextDelay(d, b) == d * b

\* Mutant of Caught: the handler catches every exception.
CaughtAny(outcome) == outcome # "ok"

\* except exception_types as e: only the declared types enter the handler.
Caught(outcome) == outcome = "declared"

RetryFrame ==
    UNCHANGED <<reportVars, pageVars, chunkVars, sinkVars, dayVars, sanVars,
                entryVars, tokenVars, tagVars, textsVars, mainVars, rerunVars,
                loadVars, shareVars, analyticsVars, paceVars, dedupVars,
                advertsVars, orderVars>>

\* wrapper entered: attempt = 0, current_delay = delay_seconds
RetryInit ==
    /\ r_pc = "loop"
    /\ max_retries \in 0..MaxRetries
    /\ delay_seconds \in 1..MaxDelay
    /\ backoff_factor \in 1..MaxBackoff
    /\ attempt = 0
    /\ current_delay = delay_seconds
    /\ r_calls = <<>>
    /\ r_warnings = <<>>
    /\ r_errors = 0
    /\ r_sleeps = <<>>
    /\ r_result = None

\* One iteration of the while loop: func is invoked once.
RetryAttempt ==
    /\ r_pc = "loop"
    /\ RetryLoopCondition(attempt, max_retries)
    /\ \E outcome \in FuncOutcomes :
         LET n == Len(r_calls) + 1 IN
         /\ r_calls' = Append(r_calls, outcome)
         /\ CASE outcome = "ok" ->
                   /\ r_pc' = "returned"
                   /\ r_result' = FuncValue(n)
                   /\ UNCHANGED <<attempt, current_delay, r_warnings, r_errors, r_sleeps>>
              [] outcome # "ok" /\ ~Caught(outcome) ->
                   /\ r_pc' = "raised"
                   /\ r_result' = FuncException("other", n)
                   /\ UNCHANGED <<attempt, current_delay, r_warnings, r_errors, r_sleeps>>
              [] Caught(outcome) ->
                   /\ attempt' = attempt + 1
                   /\ IF RetryGiveUp(attempt + 1, max_retries)
                        THEN /\ r_errors' = r_errors + 1
                             /\ r_pc' = "raised"
                             /\ r_result' = FuncException("declared", n)
                             /\ UNCHANGED <<current_delay, r_warnings, r_sleeps>>
                        ELSE /\ r_warnings' = Append(r_warnings, attempt + 1)
                             /\ r_sleeps' = Append(r_sleeps, current_delay)
                             /\ current_delay' = NextDelay(current_delay, backoff_factor)
                             /\ UNCHANGED <<r_pc, r_errors, r_result>>
    /\ UNCHANGED <<max_retries, delay_seconds, backoff_factor>>
    /\ RetryFrame

\* The while condition is false: the wrapper falls off the loop and returns
\* None (only possible when max_retries <= 0).
RetryFallThrough ==
    /\ r_pc = "loop"
    /\ ~RetryLoopCondition(attempt, max_retries)
    /\ r_pc' = "returned"
    /\ r_result' = None
    /\ UNCHANGED <<max_retries, delay_seconds, backoff_factor, attempt,
                   current_delay, r_calls, r_warnings, r_errors, r_sleeps>>
    /\ RetryFrame

RetryNext == RetryAttempt \/ RetryFallThrough

InitRetry ==
    RetryInit /\ ReportIdle /\ PageIdle /\ ChunkIdle /\ SinkIdle /\ DayIdle
    /\ OrderIdle
    /\ AdvertsIdle
    /\ DedupIdle
    /\ PaceIdle
    /\ AnalyticsIdle
    /\ ShareIdle
    /\ LoadIdle
    /\ RerunIdle
    /\ MainIdle
    /\ TextsIdle
    /\ TagIdle
    /\ TokenIdle
    /\ EntryIdle
    /\ SanIdle

SpecRetry == InitRetry /\ [][RetryNext]_vars

\* Number of invocations of func that raised a declared exception type.
DeclaredFailures == Cardinality({i \in DOMAIN r_calls : r_calls[i] = "declared"})
OnlyDeclaredFailures == \A i \in DOMAIN r_calls : r_calls[i] = "declared"

\* C6: with max_retries = N >= 1, a call that fails k < N times in a row with
\* a declared exception type and then succeeds makes the wrapper return that
\* success result after exactly k+1 invocations, with exactly k warnings
\* logged and exactly k sleeps; fewer than N declared failures never make
\* the wrapper raise the declared exception.
C6_RetryThenSucceed ==
    max_retries >= 1 =>
      /\ (r_pc = "returned" /\ r_result # None) =>
            LET k == DeclaredFailures IN
            /\ k < max_retries
            /\ Len(r_calls) = k + 1
            /\ \A i \in 1..k : r_calls[i] = "declared"
            /\ r_calls[k + 1] = "ok"
            /\ r_result = FuncValue(k + 1)
            /\ Len(r_warnings) = k
            /\ Len(r_sleeps) = k
            /\ r_errors = 0
      /\ (OnlyDeclaredFailures /\ DeclaredFailures < max_retries) =>
            /\ r_pc = "loop"
            /\ Len(r_warnings) = DeclaredFailures
            /\ Len(r_sleeps) = DeclaredFailures

\* C6 witness: two declared failures, then success on the third call, N = 3.
C6_Witness ==
    /\ max_retries = 3
    /\ r_pc = "returned"
    /\ r_calls = <<"declared", "declared", "ok">>
    /\ Len(r_warnings) = 2

\* C7: with max_retries = N >= 1, a call that fails with a declared exception
\* type on every attempt is invoked exactly N times and never more, with N-1
\* sleeps, and the wrapper then re-raises the exception of the last attempt
\* after logging the failure once as an error.
C7_RetryExhausted ==
    max_retries >= 1 =>
      /\ Len(r_calls) <= max_retries
      /\ (OnlyDeclaredFailures /\ Len(r_calls) = max_retries) =>
            /\ r_pc = "raised"
            /\ r_result = FuncException("declared", max_retries)
            /\ r_errors = 1
            /\ Len(r_sleeps) = max_retries - 1
            /\ Len(r_warnings) = max_retries - 1
      /\ (r_pc = "raised" /\ r_result.kind = "declared") =>
            /\ OnlyDeclaredFailures
            /\ Len(r_calls) = max_retries
      /\ r_pc = "loop" => r_errors = 0

\* C7 witness: three declared failures with N = 3, the third one re-raised.
C7_Witness ==
    /\ max_retries = 3
    /\ r_pc = "raised"
    /\ r_calls = <<"declared", "declared", "declared">>
    /\ r_errors = 1

\* base to the power of a natural exponent.
RECURSIVE Pow(_, _)
Pow(base, e) == IF e = 0 THEN 1 ELSE base * Pow(base, e - 1)

\* C35: the sleep after the k-th failure, the one that precedes attempt k+1,
\* lasts delay_seconds * backoff_factor^(k-1), there is one sleep per failure
\* below max_retries, and with backoff_factor = 1 every sleep lasts
\* delay_seconds.
C35_BackoffDelay ==
    r_pc # "idle" =>
      /\ \A k \in DOMAIN r_sleeps :
           /\ 1 <= k /\ k < max_retries
           /\ r_calls[k] = "declared"
           /\ r_sleeps[k] = delay_seconds * Pow(backoff_factor, k - 1)
           /\ backoff_factor = 1 => r_sleeps[k] = delay_seconds
      /\ r_pc = "loop" =>
           /\ Len(r_sleeps) = attempt
           /\ current_delay = delay_seconds * Pow(backoff_factor, attempt)

\* C35 witness: two failures with backoff_factor = 2 and delay_seconds = 3:
\* the sleeps last 3 and 6.
C35_Witness ==
    /\ max_retries = 3
    /\ backoff_factor = 2
    /\ r_sleeps = <<3, 6>>
    /\ Len(r_calls) = 3

(***************************************************************************)
(* OzonPerformanceConnector.fetch_campaign_product_stats                   *)
(***************************************************************************)
JobIds == 1..MaxJobs

\* States a status poll may return; "UNKNOWN" is status_data.get("state",
\* "UNKNOWN") for a response without a state.
PollStates == {"OK", "ERROR", "FAILED", "NOT_STARTED", "IN_PROGRESS", "UNKNOWN"}

\* @retry_on_exception(exception_types=(httpx.HTTPError,), max_retries=3, ...)
\* on create_statistics_report
CreateMaxRetries == 3

\* Mutant of DeadlineExceeded: the deadline is taken for half of what it is.
DeadlineExceededEarly(elapsed, maxWait) == 2 * elapsed > maxWait

\* if time.time() - start_time > max_wait_seconds
DeadlineExceeded(elapsed, maxWait) == elapsed > maxWait

\* Mutant of ReportReady: every state that is not a failure counts as ready.
ReportReadyLoose(st) == st \notin {"ERROR", "FAILED"}

\* if state == "OK": break
ReportReady(st) == st = "OK"

\* Mutant of ReportFailed: FAILED is not taken for a failure.
ReportFailedOnlyError(st) == st = "ERROR"

\* elif state in ["ERROR", "FAILED"]
ReportFailed(st) == st \in {"ERROR", "FAILED"}

\* raise OzonConnectorError(f"Report {uuid} timeout after {max_wait_seconds}s")
TimeoutError == [type |-> "OzonConnectorError", cause |-> "timeout"]

\* raise OzonConnectorError(f"Report {uuid} failed with state: {state}")
ReportFailedError == [type |-> "OzonConnectorError", cause |-> "failed"]

\* response.raise_for_status() / a network failure inside httpx
HttpError == [type |-> "HTTPError", cause |-> "http"]

ReportFrame ==
    UNCHANGED <<retryVars, pageVars, chunkVars, sinkVars, dayVars, sanVars,
                entryVars, tokenVars, tagVars, textsVars, mainVars, rerunVars,
                loadVars, shareVars, analyticsVars, paceVars, dedupVars,
                advertsVars, orderVars>>

ReportInit ==
    /\ w_pc = "create"
    /\ max_wait_seconds \in 0..MaxWait
    /\ poll_interval \in 1..MaxPollInterval
    /\ uuid = 0
    /\ w_elapsed = 0
    /\ w_submits = 0
    /\ w_polls = 0
    /\ w_polled = 0
    /\ state = "UNKNOWN"
    /\ w_downloads = <<>>
    /\ w_error = None

\* Step 1: uuid = self.create_statistics_report(...), under its retry policy:
\* the POST fails `fails` times in a row; start_time = time.time() on success.
ReportCreate ==
    /\ w_pc = "create"
    /\ \E fails \in 0..CreateMaxRetries, id \in JobIds :
         IF fails < CreateMaxRetries
           THEN /\ w_submits' = fails + 1
                /\ uuid' = id
                /\ w_pc' = "check"
                /\ UNCHANGED w_error
           ELSE /\ w_submits' = CreateMaxRetries
                /\ w_pc' = "raised"
                /\ w_error' = HttpError
                /\ UNCHANGED uuid
    /\ UNCHANGED <<max_wait_seconds, poll_interval, w_elapsed, w_polls, w_polled,
                   state, w_downloads>>
    /\ ReportFrame

\* Top of the while loop with the deadline exceeded.
ReportTimeout ==
    /\ w_pc = "check"
    /\ DeadlineExceeded(w_elapsed, max_wait_seconds)
    /\ w_pc' = "raised"
    /\ w_error' = TimeoutError
    /\ UNCHANGED <<max_wait_seconds, poll_interval, uuid, w_elapsed, w_submits,
                   w_polls, w_polled, state, w_downloads>>
    /\ ReportFrame

\* One iteration of the while loop: the status poll, the decision on its
\* state, and time.sleep(poll_interval) when the state is not terminal.
ReportPoll ==
    /\ w_pc = "check"
    /\ ~DeadlineExceeded(w_elapsed, max_wait_seconds)
    /\ \E dur \in 0..MaxPollDuration, resp \in PollStates \cup {"http_error"} :
         /\ w_polls' = w_polls + 1
         /\ w_polled' = uuid
         /\ IF resp = "http_error"
              THEN /\ w_pc' = "raised"
                   /\ w_error' = HttpError
                   /\ w_elapsed' = w_elapsed + dur
                   /\ UNCHANGED state
              ELSE /\ state' = resp
                   /\ IF ReportReady(resp)
                        THEN /\ w_pc' = "download"
                             /\ w_elapsed' = w_elapsed + dur
                             /\ UNCHANGED w_error
                        ELSE IF ReportFailed(resp)
                          THEN /\ w_pc' = "raised"
                               /\ w_error' = ReportFailedError
                               /\ w_elapsed' = w_elapsed + dur
                          ELSE /\ w_elapsed' = w_elapsed + dur + poll_interval
                               /\ UNCHANGED <<w_pc, w_error>>
    /\ UNCHANGED <<max_wait_seconds, poll_interval, uuid, w_submits, w_downloads>>
    /\ ReportFrame

\* Step 3: return self.download_report(uuid)
ReportDownload ==
    /\ w_pc = "download"
    /\ w_downloads' = Append(w_downloads, uuid)
    /\ \E ok \in BOOLEAN :
         IF ok THEN /\ w_pc' = "returned"
                    /\ UNCHANGED w_error
               ELSE /\ w_pc' = "raised"
                    /\ w_error' = HttpError
    /\ UNCHANGED <<max_wait_seconds, poll_interval, uuid, w_elapsed, w_submits,
                   w_polls, w_polled, state>>
    /\ ReportFrame

ReportNext == ReportCreate \/ ReportTimeout \/ ReportPoll \/ ReportDownload

InitReport ==
    ReportInit /\ RetryIdle /\ PageIdle /\ ChunkIdle /\ SinkIdle /\ DayIdle
    /\ OrderIdle
    /\ AdvertsIdle
    /\ DedupIdle
    /\ PaceIdle
    /\ AnalyticsIdle
    /\ ShareIdle
    /\ LoadIdle
    /\ RerunIdle
    /\ MainIdle
    /\ TextsIdle
    /\ TagIdle
    /\ TokenIdle
    /\ EntryIdle
    /\ SanIdle

SpecReport == InitReport /\ [][ReportNext]_vars

\* The same workflow under the scheduling of a sequential program: a step that
\* can be taken is taken.
SpecReportFair == SpecReport /\ WF_vars(ReportNext)

Terminated == w_pc \in {"returned", "raised"}

\* C3: download_report is invoked at most once, only for the job created in
\* this run and only after a status poll of that job returned OK; no poll is
\* issued after the download, and a run that returns bytes invoked download
\* exactly once.
C3_DownloadInv ==
    /\ Len(w_downloads) <= 1
    /\ w_downloads # <<>> =>
         /\ w_submits >= 1
         /\ uuid \in JobIds
         /\ w_downloads[1] = uuid
         /\ w_polls >= 1
         /\ w_polled = uuid
         /\ state = "OK"
    /\ w_pc = "returned" => Len(w_downloads) = 1

C3_DownloadOnceAfterOk ==
    /\ []C3_DownloadInv
    /\ [][w_downloads # <<>> => w_polls' = w_polls]_vars

\* C3 witness: a run that polled a non-terminal state, then OK, then
\* downloaded and returned the bytes.
C3_Witness ==
    /\ w_pc = "returned"
    /\ w_polls >= 2
    /\ w_downloads = <<uuid>>

\* C4: when every status poll returns a non-terminal state the workflow polls
\* once per poll_interval and ends by raising the timeout error: not before
\* max_wait_seconds have elapsed, not later than one poll_interval plus one
\* poll call after that deadline, and without calling download.
C4_TimeoutInv ==
    /\ w_error = TimeoutError =>
         /\ w_pc = "raised"
         /\ w_elapsed >= max_wait_seconds
         /\ w_elapsed <= max_wait_seconds + poll_interval + MaxPollDuration
         /\ w_polls >= 1
         /\ ~ReportReady(state) /\ ~ReportFailed(state)
         /\ w_downloads = <<>>
    /\ w_pc = "check" =>
         /\ w_elapsed >= w_polls * poll_interval
         /\ w_elapsed <= w_polls * (poll_interval + MaxPollDuration)
    /\ (Terminated /\ w_error # HttpError /\ ~ReportReady(state) /\ ~ReportFailed(state))
         => w_error = TimeoutError

C4_PollTimeout ==
    /\ []C4_TimeoutInv
    /\ <>Terminated

\* C4 witness: the timeout raised after at least two non-terminal polls.
C4_Witness ==
    /\ w_pc = "raised"
    /\ w_error = TimeoutError
    /\ w_polls >= 2
    /\ w_elapsed > max_wait_seconds

\* C5: the error raised when the polling deadline is exceeded differs by type
\* from the error raised when the remote job reports ERROR / FAILED.
C5_TimeoutDistinctFromFailure ==
    (w_pc = "raised" /\ w_error.cause = "timeout") => w_error.type # ReportFailedError.type

\* The state a failed remote job reports.
FailureStates == {"ERROR", "FAILED"}

C16_FailureInv ==
    state \in FailureStates =>
        /\ w_pc = "raised"
        /\ w_error = ReportFailedError
        /\ w_downloads = <<>>
        /\ w_submits >= 1

\* C16: once a status poll has returned ERROR or FAILED the workflow has
\* raised the report-failure error; from then on no poll, no download and no
\* submit is issued, the workflow not being run again by any retry policy.
C16_FailureRaisesAtOnce ==
    /\ []C16_FailureInv
    /\ [][(state \in FailureStates) =>
            (w_polls' = w_polls /\ w_submits' = w_submits
             /\ w_downloads' = w_downloads)]_vars

\* C16 witness: the second poll returned FAILED and the workflow raised.
C16_Witness ==
    /\ w_pc = "raised"
    /\ state = "FAILED"
    /\ w_polls = 2
    /\ w_error = ReportFailedError

\* C17: a run of the workflow issues exactly one submit request; a failed
\* submit ends the run in an error with no poll and no download, and polls
\* are issued only for the job id a successful submit returned.
C17_SingleSubmit ==
    /\ w_submits <= 1
    /\ w_pc # "create" => w_submits = 1
    /\ (w_polls > 0 \/ w_downloads # <<>>) => (uuid \in JobIds /\ w_polled = uuid)
    /\ uuid = 0 => (w_polls = 0 /\ w_downloads = <<>>)

(***************************************************************************)
(* WBConnector.fetch_search_report_all: offset-cursor pagination           *)
(***************************************************************************)
\* limit = 1000
limit == 1000

\* Sizes of the pages a source may answer with: empty, short, one short of
\* full, full.
PageSizes == {0, 1, limit - 1, limit}

\* The groups of a page of n items answered to the request at offset off.
PageItems(off, n) == [i \in 1..n |-> off + i]

\* response.get("data", {}).get("groups", []) of the i-th request: the source
\* answers with an empty page once it has run out of pages.
PageSize(i) == IF i \in DOMAIN p_src THEN p_src[i] ELSE 0

\* Mutant of LastPage: a full page ends the pagination too.
LastPageOffByOne(groups, lim) == Len(groups) <= lim

\* if len(groups) < limit: break
LastPage(groups, lim) == Len(groups) < lim

\* offset += limit
NextOffset(off, lim) == off + lim

PageFrame ==
    UNCHANGED <<retryVars, reportVars, chunkVars, sinkVars, dayVars, sanVars,
                entryVars, tokenVars, tagVars, textsVars, mainVars, rerunVars,
                loadVars, shareVars, analyticsVars, paceVars, dedupVars,
                advertsVars, orderVars>>

PageInit ==
    /\ p_pc = "loop"
    /\ p_src \in UNION {[1..n -> PageSizes] : n \in 0..MaxPages}
    /\ offset = 0
    /\ page = 1
    /\ all_groups = <<>>
    /\ p_requests = <<>>
    /\ p_sleeps = 0

\* One iteration of the while loop: one fetch_search_report call (which
\* raises once its retries are used up), the two break tests, the cursor
\* advance and the sleep.
PageFetch ==
    /\ p_pc = "loop"
    /\ p_requests' = Append(p_requests, offset)
    /\ \E ok \in BOOLEAN :
         IF ~ok
           THEN /\ p_pc' = "raised"
                /\ UNCHANGED <<offset, page, all_groups, p_sleeps>>
           ELSE LET groups == PageItems(offset, PageSize(Len(p_requests) + 1)) IN
                IF groups = <<>>
                  THEN /\ p_pc' = "returned"
                       /\ UNCHANGED <<offset, page, all_groups, p_sleeps>>
                  ELSE /\ all_groups' = all_groups \o groups
                       /\ IF LastPage(groups, limit)
                            THEN /\ p_pc' = "returned"
                                 /\ UNCHANGED <<offset, page, p_sleeps>>
                            ELSE /\ offset' = NextOffset(offset, limit)
                                 /\ page' = page + 1
                                 /\ p_sleeps' = p_sleeps + 1
                                 /\ UNCHANGED p_pc
    /\ UNCHANGED p_src
    /\ PageFrame

PageNext == PageFetch

InitPage ==
    PageInit /\ RetryIdle /\ ReportIdle /\ ChunkIdle /\ SinkIdle /\ DayIdle
    /\ OrderIdle
    /\ AdvertsIdle
    /\ DedupIdle
    /\ PaceIdle
    /\ AnalyticsIdle
    /\ ShareIdle
    /\ LoadIdle
    /\ RerunIdle
    /\ MainIdle
    /\ TextsIdle
    /\ TagIdle
    /\ TokenIdle
    /\ EntryIdle
    /\ SanIdle

SpecPage == InitPage /\ [][PageNext]_vars

\* Index of the first page of the source that is short or empty; one past the
\* source when all of its pages are full (the next answer is empty).
RECURSIVE FirstShortPage(_)
FirstShortPage(i) ==
    IF i > Len(p_src) \/ p_src[i] < limit THEN i ELSE FirstShortPage(i + 1)

\* Pages 1..k of the source, concatenated in order.
RECURSIVE ConcatPages(_)
ConcatPages(k) ==
    IF k = 0 THEN <<>>
    ELSE ConcatPages(k - 1) \o PageItems((k - 1) * limit, PageSize(k))

\* C8: over a source whose first k-1 pages are full and whose k-th page is
\* short or empty, fetch_search_report_all issues exactly k requests, at
\* offsets 0, limit, ..., (k-1)*limit in that order, and returns the
\* concatenation of the pages in order.
C8_PaginationTermination ==
    p_pc = "returned" =>
      LET k == FirstShortPage(1) IN
      /\ p_requests = [i \in 1..k |-> (i - 1) * limit]
      /\ all_groups = ConcatPages(k)
      /\ Len(all_groups) = (k - 1) * limit + PageSize(k)

\* C8 witness: pages of sizes [limit, limit, limit-1]: 3 calls, 3*limit-1 items.
C8_Witness ==
    /\ p_pc = "returned"
    /\ p_src = <<limit, limit, limit - 1>>
    /\ Len(p_requests) = 3
    /\ Len(all_groups) = 3 * limit - 1

(***************************************************************************)
(* Chunked fetches: fetch_fullstats_chunked,                               *)
(* fetch_product_search_texts_chunked, fetch_normquery_stats_chunked, and  *)
(* the campaign batches of run_ozon_performance_pipeline                   *)
(***************************************************************************)
ChunkKinds == {"fullstats", "search_texts", "normquery", "ozon_performance"}

\* if len(nm_ids) > 50: raise WBConnectorError(...)
MaxNmIdsPerRequest == 50

\* if len(items) > 100: raise WBConnectorError(...)
MaxItemsPerRequest == 100

\* batch_size_api = 10
batch_size_api == 10

\* @retry_on_exception(exception_types=(httpx.HTTPError,), max_retries=3, ...)
\* on fetch_product_search_texts and fetch_normquery_stats
FetchMaxRetries == 3

\* Python's seq[a:b] for 0 <= a <= b.
Slice(seq, a, b) ==
    IF a >= Len(seq) THEN <<>>
    ELSE SubSeq(seq, a + 1, IF b < Len(seq) THEN b ELSE Len(seq))

\* Python's range(start, stop, step) for step >= 1.
RECURSIVE Range(_, _, _)
Range(start, stop, step) ==
    IF start >= stop THEN <<>>
    ELSE <<start>> \o Range(start + step, stop, step)

\* Mutant of Chunked: the slice is one key short.
ChunkedShortSlice(seq, size) ==
    LET starts == Range(0, Len(seq), size) IN
    [j \in DOMAIN starts |-> Slice(seq, starts[j], starts[j] + size - 1)]

\* WBConnector._chunked: [seq[i : i + size] for i in range(0, len(seq), size)];
\* fetch_normquery_stats_chunked builds its chunks with the same comprehension.
Chunked(seq, size) ==
    LET starts == Range(0, Len(seq), size) IN
    [j \in DOMAIN starts |-> Slice(seq, starts[j], starts[j] + size)]

\* batch_ids = campaign_ids[batch_start:batch_start + batch_size_api]
BatchIds(campaign_ids, batch_start) ==
    Slice(campaign_ids, batch_start, batch_start + batch_size_api)

\* total_batches = (len(campaign_ids) + batch_size_api - 1) // batch_size_api
TotalBatches(campaign_ids) ==
    (Len(campaign_ids) + batch_size_api - 1) \div batch_size_api

\* The size guards of fetch_product_search_texts and fetch_normquery_stats;
\* the fullstats request has none.
Oversize(kind, chunk) ==
    \/ kind = "search_texts" /\ Len(chunk) > MaxNmIdsPerRequest
    \/ kind = "normquery" /\ Len(chunk) > MaxItemsPerRequest

\* raise WBConnectorError("...: max 50 nmIds / 100 items per request")
OversizeError == [type |-> "WBConnectorError", cause |-> "oversize"]

\* Chunk sizes a caller may configure, by kind: small ones, and the ones
\* around the endpoint's declared maximum.
ChunkSizes(kind) ==
    CASE kind = "fullstats" -> 1..MaxSmallChunk
      [] kind = "search_texts" ->
           (1..MaxSmallChunk) \cup {MaxNmIdsPerRequest, MaxNmIdsPerRequest + 1}
      [] kind = "normquery" ->
           (1..MaxSmallChunk) \cup {MaxItemsPerRequest, MaxItemsPerRequest + 1}
      [] kind = "ozon_performance" -> {batch_size_api}

\* Lengths of the key list: whole chunks, one key more, one key less.
KeyCounts(size) ==
    {n \in {q * size + r : q \in 0..(MaxChunks - 1), r \in {0, 1, size - 1}} :
        n <= MaxChunks * size}

\* The key list of n keys: the ids 1..n in order.
KeyList(n) == [i \in 1..n |-> i]

\* What the API answers for a chunk: one item per key.
Response(chunk) == chunk

ChunkFrame ==
    UNCHANGED <<retryVars, reportVars, pageVars, sinkVars, dayVars, sanVars,
                entryVars, tokenVars, tagVars, textsVars, mainVars, rerunVars,
                loadVars, shareVars, analyticsVars, paceVars, dedupVars,
                advertsVars, orderVars>>

ChunkInit ==
    /\ c_pc = "start"
    /\ c_kind \in ChunkKinds
    /\ chunk_size \in ChunkSizes(c_kind)
    /\ c_keys \in {KeyList(n) : n \in KeyCounts(chunk_size)}
    /\ chunks = <<>>
    /\ c_idx = 0
    /\ c_requests = <<>>
    /\ c_results = <<>>
    /\ c_logged = <<>>
    /\ c_rejected = {}
    /\ c_sleeps = 0
    /\ c_error = None
    /\ c_outcomes = <<>>

\* Mutant of NoKeys: the guard for an empty key list never fires.
NoKeysNever(keys) == FALSE

\* not advert_ids / not nm_ids / not items
NoKeys(keys) == keys = <<>>

\* if not advert_ids / nm_ids / items: return []; chunks = self._chunked(...)
\* (the campaign batches are cut one by one inside the loop)
ChunkPlan ==
    /\ c_pc = "start"
    /\ IF c_kind # "ozon_performance" /\ NoKeys(c_keys)
         THEN /\ c_pc' = "returned"
              /\ UNCHANGED chunks
         ELSE /\ c_pc' = "loop"
              /\ chunks' = IF c_kind = "ozon_performance" THEN <<>>
                           ELSE Chunked(c_keys, chunk_size)
    /\ UNCHANGED <<c_kind, c_keys, chunk_size, c_idx, c_requests, c_results,
                   c_logged, c_rejected, c_sleeps, c_error>>
    /\ UNCHANGED c_outcomes
    /\ ChunkFrame

\* The chunk loop has run out of chunks: return results.
ChunkReturn ==
    /\ c_pc = "loop"
    /\ IF c_kind = "ozon_performance"
         THEN c_idx * batch_size_api >= Len(c_keys)
         ELSE c_idx >= Len(chunks)
    /\ c_pc' = "returned"
    /\ UNCHANGED <<c_kind, c_keys, chunk_size, chunks, c_idx, c_requests, c_results,
                   c_logged, c_rejected, c_sleeps, c_error>>
    /\ UNCHANGED c_outcomes
    /\ ChunkFrame

\* Mutant of SleepAfter: the fetch sleeps after every chunk.
SleepAfterEvery(idx, plan) == 1

\* time.sleep(sleep_seconds) after chunk idx when it is not the last one.
SleepAfter(idx, plan) == IF idx < Len(plan) THEN 1 ELSE 0

\* One iteration of fetch_fullstats_chunked: one GET; an httpx.HTTPError is
\* logged and re-raised.
FullstatsChunk ==
    /\ c_pc = "loop"
    /\ c_kind = "fullstats"
    /\ c_idx < Len(chunks)
    /\ LET idx == c_idx + 1
           chunk == chunks[idx] IN
       /\ c_idx' = idx
       /\ c_requests' = Append(c_requests, chunk)
       /\ \E ok \in BOOLEAN :
            IF ok
              THEN /\ c_results' = c_results \o Response(chunk)
                   /\ c_sleeps' = c_sleeps + SleepAfter(idx, chunks)
                   /\ UNCHANGED <<c_pc, c_logged, c_error>>
              ELSE /\ c_logged' = Append(c_logged, idx)
                   /\ c_pc' = "raised"
                   /\ c_error' = HttpError
                   /\ UNCHANGED <<c_results, c_sleeps>>
    /\ UNCHANGED <<c_kind, c_keys, chunk_size, chunks, c_rejected>>
    /\ UNCHANGED c_outcomes
    /\ ChunkFrame

\* The HTTP requests of one retry-wrapped fetch whose POST fails `fails` times
\* in a row.
Attempts(chunk, fails) ==
    [i \in 1..(IF fails < FetchMaxRetries THEN fails + 1 ELSE FetchMaxRetries) |-> chunk]

\* One iteration of fetch_product_search_texts_chunked: the size guard, then
\* the POST under the retry policy; every exception propagates.
SearchTextsChunk ==
    /\ c_pc = "loop"
    /\ c_kind = "search_texts"
    /\ c_idx < Len(chunks)
    /\ LET idx == c_idx + 1
           chunk == chunks[idx] IN
       /\ c_idx' = idx
       /\ IF Oversize(c_kind, chunk)
            THEN /\ c_rejected' = c_rejected \cup {idx}
                 /\ c_pc' = "raised"
                 /\ c_error' = OversizeError
                 /\ UNCHANGED <<c_requests, c_results, c_sleeps>>
            ELSE /\ \E fails \in 0..FetchMaxRetries :
                      /\ c_requests' = c_requests \o Attempts(chunk, fails)
                      /\ IF fails < FetchMaxRetries
                           THEN /\ c_results' = c_results \o Response(chunk)
                                /\ c_sleeps' = c_sleeps + SleepAfter(idx, chunks)
                                /\ UNCHANGED <<c_pc, c_error>>
                           ELSE /\ c_pc' = "raised"
                                /\ c_error' = HttpError
                                /\ UNCHANGED <<c_results, c_sleeps>>
                 /\ UNCHANGED c_rejected
    /\ UNCHANGED <<c_kind, c_keys, chunk_size, chunks, c_logged>>
    /\ UNCHANGED c_outcomes
    /\ ChunkFrame

\* One iteration of fetch_normquery_stats_chunked: fetch_normquery_stats (size
\* guard, POST under the retry policy) inside try / except httpx.HTTPStatusError
\* / except Exception, both of which log and go on; then the sleep.
NormqueryChunk ==
    /\ c_pc = "loop"
    /\ c_kind = "normquery"
    /\ c_idx < Len(chunks)
    /\ LET idx == c_idx + 1
           chunk == chunks[idx] IN
       /\ c_idx' = idx
       /\ c_sleeps' = c_sleeps + SleepAfter(idx, chunks)
       /\ IF Oversize(c_kind, chunk)
            THEN /\ c_rejected' = c_rejected \cup {idx}
                 /\ c_logged' = Append(c_logged, idx)
                 /\ UNCHANGED <<c_requests, c_results>>
            ELSE /\ \E fails \in 0..FetchMaxRetries :
                      /\ c_requests' = c_requests \o Attempts(chunk, fails)
                      /\ IF fails < FetchMaxRetries
                           THEN /\ c_results' = c_results \o Response(chunk)
                                /\ UNCHANGED c_logged
                           ELSE /\ c_logged' = Append(c_logged, idx)
                                /\ UNCHANGED c_results
                 /\ UNCHANGED c_rejected
    /\ UNCHANGED <<c_pc, c_kind, c_keys, chunk_size, chunks, c_error>>
    /\ UNCHANGED c_outcomes
    /\ ChunkFrame

\* What one campaign batch comes to: a report with records that are upserted,
\* a report without records, or an exception in the fetch, the parse or the
\* upsert.
BatchOutcomes == {"data", "empty", "failed"}

\* One iteration of the batch loop of run_ozon_performance_pipeline.
OzonBatch ==
    /\ c_pc = "loop"
    /\ c_kind = "ozon_performance"
    /\ c_idx * batch_size_api < Len(c_keys)
    /\ LET batch_start == c_idx * batch_size_api
           batch_ids == BatchIds(c_keys, batch_start)
           batch_num == batch_start \div batch_size_api + 1 IN
       /\ c_idx' = c_idx + 1
       /\ chunks' = Append(chunks, batch_ids)
       /\ c_requests' = Append(c_requests, batch_ids)
       /\ \E outcome \in BatchOutcomes :
            /\ c_outcomes' = Append(c_outcomes, outcome)
            /\ CASE outcome = "data" ->
                      /\ c_results' = c_results \o Response(batch_ids)
                      /\ UNCHANGED c_logged
                 [] outcome = "empty" ->
                      UNCHANGED <<c_results, c_logged>>
                 [] outcome = "failed" ->
                      /\ c_logged' = Append(c_logged, batch_num)
                      /\ UNCHANGED c_results
    /\ UNCHANGED <<c_pc, c_kind, c_keys, chunk_size, c_rejected, c_sleeps, c_error>>
    /\ ChunkFrame

ChunkNext ==
    \/ ChunkPlan
    \/ FullstatsChunk
    \/ SearchTextsChunk
    \/ NormqueryChunk
    \/ OzonBatch
    \/ ChunkReturn

InitChunk ==
    ChunkInit /\ RetryIdle /\ ReportIdle /\ PageIdle /\ SinkIdle /\ DayIdle
    /\ OrderIdle
    /\ AdvertsIdle
    /\ DedupIdle
    /\ PaceIdle
    /\ AnalyticsIdle
    /\ ShareIdle
    /\ LoadIdle
    /\ RerunIdle
    /\ MainIdle
    /\ TextsIdle
    /\ TagIdle
    /\ TokenIdle
    /\ EntryIdle
    /\ SanIdle

SpecChunk == InitChunk /\ [][ChunkNext]_vars

\* The chunks of a plan, concatenated in order.
RECURSIVE Flatten(_)
Flatten(plan) ==
    IF plan = <<>> THEN <<>>
    ELSE Flatten(SubSeq(plan, 1, Len(plan) - 1)) \o plan[Len(plan)]

\* The keys of a chunk, as a set.
KeysOf(chunk) == {chunk[i] : i \in DOMAIN chunk}

\* The chunk plan is complete: computed at once by _chunked, or cut batch by
\* batch until the campaign loop ends.
PlanComplete ==
    IF c_kind = "ozon_performance"
      THEN c_pc = "returned"
      ELSE c_pc \in {"loop", "returned", "raised"} /\ c_keys # <<>>

\* C9: for a key list of length N and chunk size C >= 1 the chunk plan has
\* exactly ceil(N/C) groups, every group has between 1 and C keys, the groups
\* do not overlap, and their concatenation in order is the key list; for
\* advert ids, nm ids, advert+nm pairs and the campaign batches of 10.
C9_ChunkPartition ==
    PlanComplete =>
      LET N == Len(c_keys)
          C == chunk_size IN
      /\ Len(chunks) = (N + C - 1) \div C
      /\ c_kind = "ozon_performance" => Len(chunks) = TotalBatches(c_keys)
      /\ \A i \in DOMAIN chunks : Len(chunks[i]) >= 1 /\ Len(chunks[i]) <= C
      /\ \A i, j \in DOMAIN chunks : i # j => KeysOf(chunks[i]) \cap KeysOf(chunks[j]) = {}
      /\ Flatten(chunks) = c_keys

\* C9 witness: a plan of two full chunks and a shorter third one.
C9_Witness ==
    /\ PlanComplete
    /\ chunk_size >= 2
    /\ Len(chunks) = 3
    /\ Len(chunks[1]) = chunk_size
    /\ Len(chunks[3]) < chunk_size

\* C10: a request that would carry more keys than the endpoint's declared
\* maximum is refused with a connector error before any HTTP request is sent
\* for it, and that error reaches the caller of the chunked fetch, whatever
\* the chunk_size.
C10_OversizeReachesCaller ==
    /\ \A i \in DOMAIN c_requests : ~Oversize(c_kind, c_requests[i])
    /\ c_rejected # {} => c_pc = "raised" /\ c_error = OversizeError

\* The chunked fetches of the WB connector.
WBChunkKinds == {"fullstats", "search_texts", "normquery"}

\* Some chunk call of the fetch has failed: logged by the fetch, refused by the
\* size guard, or raised to the caller.
ChunkCallFailed == c_logged # <<>> \/ c_rejected # {} \/ c_error # None

\* C11: in every chunked fetch of the WB connector, once the call for a chunk
\* has failed the fetch raises to its caller: it never returns after a failure
\* (so never returns the earlier chunks as a partial result) and never goes on
\* to a later chunk.
C11_ChunkFailureAborts ==
    (c_kind \in WBChunkKinds /\ ChunkCallFailed) =>
        /\ c_pc = "raised"
        /\ c_error # None


\* C14: a connector HTTP call that fails with a transport error is attempted
\* three times under the retry policy before the error surfaces: when a WB
\* chunked fetch raises the transport error, the last three requests were all
\* for the chunk that failed.
C14_TransportRetried ==
    (c_kind \in WBChunkKinds /\ c_pc = "raised" /\ c_error = HttpError) =>
        /\ Len(c_requests) >= FetchMaxRetries
        /\ \A j \in 0..(FetchMaxRetries - 1) :
             c_requests[Len(c_requests) - j] = chunks[c_idx]

\* The retry wrapper and the chunked fetches whose per-chunk method it wraps.
InitUndeclared == InitRetry \/ InitChunk

UndeclaredNext == RetryNext \/ ChunkNext

SpecUndeclared == InitUndeclared /\ [][UndeclaredNext]_vars

\* The invocations of func that raised an exception of an undeclared type.
UndeclaredCalls == {i \in DOMAIN r_calls : r_calls[i] = "other"}

\* C15: an invocation that raises an exception of an undeclared type is the
\* wrapper's last: the exception leaves the wrapper at once, with no warning,
\* no error line and no sleep on its account, and when it is the first
\* invocation there has been exactly one invocation and no sleep at all; the
\* size guard inside a retry-wrapped fetch raises its connector error without
\* any request for the refused chunk.
C15_UndeclaredNotRetried ==
    /\ \A i \in UndeclaredCalls :
         /\ i = Len(r_calls)
         /\ r_pc = "raised"
         /\ r_result = FuncException("other", i)
         /\ Len(r_sleeps) = i - 1
         /\ Len(r_warnings) = i - 1
         /\ r_errors = 0
    /\ \A idx \in c_rejected :
         \A j \in DOMAIN c_requests : c_requests[j] # chunks[idx]

\* C15 witness: the first invocation raised an undeclared type and left the
\* wrapper, three attempts being allowed.
C15_Witness ==
    /\ max_retries = 3
    /\ r_pc = "raised"
    /\ r_calls = <<"other">>
    /\ r_sleeps = <<>>

\* C23: a chunked fetch called with an empty key list returns the empty
\* collection straight away: no HTTP request, no sleep, no chunk plan, no
\* error, and the chunk loop is never entered.
C23_EmptyKeysNoRequest ==
    (c_pc # "idle" /\ c_keys = <<>>) =>
        /\ c_requests = <<>>
        /\ c_sleeps = 0
        /\ c_results = <<>>
        /\ c_error = None
        /\ c_logged = <<>>
        /\ chunks = <<>>
        /\ c_kind \in WBChunkKinds => c_pc \in {"start", "returned"}

\* C23 witness: a WB chunked fetch has returned from an empty key list.
C23_Witness ==
    /\ c_kind \in WBChunkKinds
    /\ c_keys = <<>>
    /\ c_pc = "returned"
    /\ c_results = <<>>

\* The fetches that sleep between requests: the chunked fetches and the
\* offset-cursor pagination.
InitFetches == InitChunk \/ InitPage

FetchesNext == ChunkNext \/ PageNext

SpecFetches == InitFetches /\ [][FetchesNext]_vars

\* C24: while all chunks so far have succeeded a chunked fetch over k chunks
\* has slept once after each chunk handled except the k-th, so it returns
\* after exactly k-1 sleeps; the pagination has slept once after every page
\* that was followed by another request, so after reading k pages it has
\* slept k-1 times, and not after the terminal page.
C24_SleepsBetween ==
    /\ (c_kind \in WBChunkKinds /\ c_pc \in {"loop", "returned"}
           /\ c_keys # <<>> /\ ~ChunkCallFailed) =>
          LET k == Len(chunks) IN
          /\ k >= 1
          /\ c_sleeps = (IF c_idx < k THEN c_idx ELSE k - 1)
          /\ c_pc = "returned" => c_idx = k /\ c_sleeps = k - 1
    /\ p_pc = "loop" => p_sleeps = Len(p_requests)
    /\ p_pc = "returned" =>
          /\ Len(p_requests) >= 1
          /\ p_sleeps = Len(p_requests) - 1

\* C24 witness: a fetch over three chunks, all successful, has returned after
\* two sleeps.
C24_Witness ==
    /\ c_kind = "fullstats"
    /\ c_pc = "returned"
    /\ ~ChunkCallFailed
    /\ Len(chunks) = 3
    /\ c_sleeps = 2

(***************************************************************************)
(* The batch-upsert loop of the pipelines and the destination table        *)
(***************************************************************************)
\* A flat record of the table keyed on (date, sku).
Records == [date : Dates, sku : Skus, val : Vals]

\* Mutant of ConflictKey: the conflict clause names the date column only.
ConflictKeyDateOnly(r) == <<r.date>>

\* Mutant of ConflictKey: the conflict clause names the sku column only.
ConflictKeySkuOnly(r) == <<r.sku>>

\* on_conflict="date,sku"
ConflictKey(r) == <<r.date, r.sku>>

\* The sink's upsert of one record: a row that agrees with the record on the
\* conflict columns is overwritten, otherwise the record is inserted.
UpsertRow(tbl, rec) ==
    (tbl \ {row \in tbl : ConflictKey(row) = ConflictKey(rec)}) \cup {rec}

\* The sink's upsert of one batch: its records, in order.
RECURSIVE UpsertRows(_, _)
UpsertRows(tbl, batch) ==
    IF batch = <<>> THEN tbl
    ELSE UpsertRows(UpsertRow(tbl, Head(batch)), Tail(batch))

\* Mutant of BatchAt: the slice is one record short.
BatchAtShort(recs, i, size) == Slice(recs, i, i + size - 1)

\* records[i : i + batch_size]
BatchAt(recs, i, size) == Slice(recs, i, i + size)

\* The value most recently applied per key, after one more batch.
RECURSIVE LastApplied(_, _)
LastApplied(last, batch) ==
    IF batch = <<>> THEN last
    ELSE LET r == Head(batch) IN
         LastApplied([last EXCEPT ![<<r.date, r.sku>>] = r.val], Tail(batch))

SinkFrame ==
    UNCHANGED <<retryVars, reportVars, pageVars, chunkVars, dayVars, sanVars,
                entryVars, tokenVars, tagVars, textsVars, mainVars, rerunVars,
                loadVars, shareVars, analyticsVars, paceVars, dedupVars,
                advertsVars, orderVars>>

\* Before the first run: an empty table, no records obtained yet.
SinkInit ==
    /\ s_pc = "start"
    /\ records = <<>>
    /\ batch_size = 0
    /\ s_i = 0
    /\ s_calls = <<>>
    /\ table = {}
    /\ s_last = [k \in TableKeys |-> "never"]

\* A pipeline run reaches its batch-upsert loop with the records it obtained:
\* valid_records = [...]; batch_size = settings.BATCH_SIZE
SinkStart ==
    /\ s_pc = "start"
    /\ s_pc' = "loop"
    /\ records' \in UNION {[1..n -> Records] : n \in 0..MaxRecords}
    /\ batch_size' \in 1..MaxBatch
    /\ UNCHANGED <<s_i, s_calls, table, s_last>>
    /\ SinkFrame

\* One iteration of for i in range(0, len(records), batch_size): one upsert
\* call, which the sink applies as a whole or which raises.
SinkUpsert ==
    /\ s_pc = "loop"
    /\ s_i < Len(records)
    /\ LET batch == BatchAt(records, s_i, batch_size) IN
       /\ s_calls' = Append(s_calls, batch)
       /\ \E ok \in BOOLEAN :
            IF ok
              THEN /\ table' = UpsertRows(table, batch)
                   /\ s_last' = LastApplied(s_last, batch)
                   /\ s_i' = s_i + batch_size
                   /\ UNCHANGED s_pc
              ELSE /\ s_pc' = "failed"
                   /\ UNCHANGED <<table, s_last, s_i>>
    /\ UNCHANGED <<records, batch_size>>
    /\ SinkFrame

\* range(0, len(records), batch_size) is used up.
SinkDone ==
    /\ s_pc = "loop"
    /\ s_i >= Len(records)
    /\ s_pc' = "done"
    /\ UNCHANGED <<records, batch_size, s_i, s_calls, table, s_last>>
    /\ SinkFrame

\* The run is over; the next one (the next day, or the next invocation over
\* an overlapping window) starts from scratch against the same table.
SinkNextRun ==
    /\ s_pc \in {"done", "failed"}
    /\ s_pc' = "start"
    /\ records' = <<>>
    /\ batch_size' = 0
    /\ s_i' = 0
    /\ s_calls' = <<>>
    /\ UNCHANGED <<table, s_last>>
    /\ SinkFrame

SinkNext == SinkStart \/ SinkUpsert \/ SinkDone \/ SinkNextRun

InitSink ==
    SinkInit /\ RetryIdle /\ ReportIdle /\ PageIdle /\ ChunkIdle /\ DayIdle
    /\ OrderIdle
    /\ AdvertsIdle
    /\ DedupIdle
    /\ PaceIdle
    /\ AnalyticsIdle
    /\ ShareIdle
    /\ LoadIdle
    /\ RerunIdle
    /\ MainIdle
    /\ TextsIdle
    /\ TagIdle
    /\ TokenIdle
    /\ EntryIdle
    /\ SanIdle

SpecSink == InitSink /\ [][SinkNext]_vars

\* The rows of the table that carry natural key k = (date, sku).
RowsOf(k) == {row \in table : <<row.date, row.sku>> = k}

\* The batches of a record list, applied in order to a table.
RECURSIVE ApplyFrom(_, _, _, _)
ApplyFrom(tbl, recs, i, size) ==
    IF i >= Len(recs) THEN tbl
    ELSE ApplyFrom(UpsertRows(tbl, BatchAt(recs, i, size)), recs, i + size, size)

\* C1: after any sequence of pipeline upserts on conflict key (date, sku) the
\* table holds exactly one row per key ever written and none for any other
\* key, that row carries the values of the most recently applied record with
\* that key, and applying the batches of a completed run once more leaves the
\* table as it is.
C1_IdempotentUpsert ==
    /\ \A k \in TableKeys :
         IF s_last[k] = "never"
           THEN RowsOf(k) = {}
           ELSE RowsOf(k) = {[date |-> k[1], sku |-> k[2], val |-> s_last[k]]}
    /\ s_pc = "done" => ApplyFrom(table, records, 0, batch_size) = table

\* C1 witness: a completed run has overwritten a row written by an earlier
\* run, next to a row of another key.
C1_Witness ==
    /\ s_pc = "done"
    /\ Len(records) = 2
    /\ records[1].date = records[2].date
    /\ records[1].sku = records[2].sku
    /\ records[1].val # records[2].val
    /\ Cardinality(table) >= 2

DayStages == {"fetch", "transform", "none"}

\* Mutant of DayLoopCondition: the loop stops before the last day.
DayLoopConditionStrict(d, to) == d < to

\* while current_date <= date_to
DayLoopCondition(d, to) == d <= to

\* Mutant of NextDate: the loop steps over a day.
NextDateSkip(d) == d + 2

\* current_date += timedelta(days=1)
NextDate(d) == d + 1

\* if current_date < date_to: time.sleep(settings.SLEEP_SECONDS)
SleepAfterDay(d, to) == d < to

\* The number of upsert calls range(0, len(records), batch_size) issues.
UpsertCalls(n, size) == Len(Range(0, n, size))

\* The records carried by the first k upsert calls over n records.
Carried(n, size, k) == IF k * size < n THEN k * size ELSE n

DayFrame ==
    UNCHANGED <<retryVars, reportVars, pageVars, chunkVars, sinkVars, sanVars,
                entryVars, tokenVars, tagVars, textsVars, mainVars, rerunVars,
                loadVars, shareVars, analyticsVars, paceVars, dedupVars,
                advertsVars, orderVars>>

DayInit ==
    /\ d_pc = "loop"
    /\ date_from \in 1..MaxDay
    /\ date_to \in date_from..MaxDay
    /\ d_batch_size \in 1..MaxBatch
    /\ current_date = date_from
    /\ total_records = 0
    /\ d_visited = <<>>
    /\ d_errors = <<>>
    /\ d_outcomes = <<>>
    /\ d_sleeps = 0

\* One iteration of the while loop: the fetch, the transform and the batch
\* upsert inside the try, the except clause, the sleep and the date step.  The
\* fetch or the transform raises, or n records are obtained and upsert call
\* number failAt raises (failAt = 0: none does).
DayIteration ==
    /\ d_pc = "loop"
    /\ DayLoopCondition(current_date, date_to)
    /\ \E stage \in DayStages, n \in 0..MaxDayRecords, failAt \in 0..MaxDayRecords :
         /\ stage # "none" => n = 0 /\ failAt = 0
         /\ failAt <= UpsertCalls(n, d_batch_size)
         /\ LET failed == stage # "none" \/ failAt > 0
                applied == IF failAt = 0 THEN n
                           ELSE Carried(n, d_batch_size, failAt - 1) IN
            /\ d_visited' = Append(d_visited, current_date)
            /\ d_outcomes' = Append(d_outcomes,
                   [day |-> current_date, stage |-> stage, n |-> n,
                    failed |-> failed, applied |-> applied])
            /\ IF failed
                 THEN /\ d_errors' = Append(d_errors, current_date)
                      /\ UNCHANGED total_records
                 ELSE /\ total_records' = total_records + n
                      /\ UNCHANGED d_errors
    /\ d_sleeps' = d_sleeps + (IF SleepAfterDay(current_date, date_to) THEN 1 ELSE 0)
    /\ current_date' = NextDate(current_date)
    /\ UNCHANGED <<d_pc, date_from, date_to, d_batch_size>>
    /\ DayFrame

\* The loop condition fails: the completion line is logged.
DayLoopExit ==
    /\ d_pc = "loop"
    /\ ~DayLoopCondition(current_date, date_to)
    /\ d_pc' = "done"
    /\ UNCHANGED <<date_from, date_to, d_batch_size, current_date, total_records,
                   d_visited, d_errors, d_outcomes, d_sleeps>>
    /\ DayFrame

DayNext == DayIteration \/ DayLoopExit

InitDay ==
    DayInit /\ RetryIdle /\ ReportIdle /\ PageIdle /\ ChunkIdle /\ SinkIdle
    /\ OrderIdle
    /\ AdvertsIdle
    /\ DedupIdle
    /\ PaceIdle
    /\ AnalyticsIdle
    /\ ShareIdle
    /\ LoadIdle
    /\ RerunIdle
    /\ MainIdle
    /\ TextsIdle
    /\ TagIdle
    /\ TokenIdle
    /\ EntryIdle
    /\ SanIdle

SpecDay == InitDay /\ [][DayNext]_vars

\* The day loops and the campaign batch loop together.
InitLoops == InitDay \/ InitChunk

LoopsNext == DayNext \/ ChunkNext

SpecLoops == InitLoops /\ [][LoopsNext]_vars

\* The entries of a sequence of outcomes that failed.
IsFailed(o) == o.failed

\* The positions of the campaign batches that failed.
FailedBatches == {i \in DOMAIN c_outcomes : c_outcomes[i] = "failed"}

\* The responses of the campaign batches that had data, concatenated in order.
RECURSIVE DataOf(_)
DataOf(k) ==
    IF k = 0 THEN <<>>
    ELSE DataOf(k - 1) \o (IF c_outcomes[k] = "data"
                             THEN Response(c_requests[k]) ELSE <<>>)

\* C2: a day loop visits every day of [date_from, date_to] exactly once in
\* ascending order, logs one error naming each failing day and no other day,
\* and upserts all records of every non-failing day that has data; the Ozon
\* Performance batch loop does the same over the campaign batches.
C2_FailureIsolation ==
    /\ d_pc # "idle" =>
         /\ d_visited = [i \in 1..Len(d_visited) |-> date_from + i - 1]
         /\ Len(d_outcomes) = Len(d_visited)
         /\ LET F == SelectSeq(d_outcomes, IsFailed) IN
              d_errors = [i \in 1..Len(F) |-> F[i].day]
         /\ \A i \in DOMAIN d_outcomes :
              /\ d_outcomes[i].day = d_visited[i]
              /\ ~d_outcomes[i].failed => d_outcomes[i].applied = d_outcomes[i].n
         /\ d_pc = "done" => Len(d_visited) = date_to - date_from + 1
    /\ c_kind = "ozon_performance" =>
         /\ c_requests = [i \in 1..Len(c_requests) |->
                            BatchIds(c_keys, (i - 1) * batch_size_api)]
         /\ Len(c_outcomes) = Len(c_requests)
         /\ Len(c_logged) = Cardinality(FailedBatches)
         /\ \A i \in DOMAIN c_logged : c_logged[i] \in FailedBatches
         /\ \A i, j \in DOMAIN c_logged : i < j => c_logged[i] < c_logged[j]
         /\ c_results = DataOf(Len(c_outcomes))
         /\ c_pc = "returned" =>
              Len(c_requests) * batch_size_api >= Len(c_keys)

\* C2 witness: a three-day window whose middle day failed has been worked
\* through, the first and the last day upserted.
C2_Witness ==
    /\ d_pc = "done"
    /\ date_to = date_from + 2
    /\ d_errors = <<date_from + 1>>
    /\ d_outcomes[1].applied > 0
    /\ d_outcomes[3].applied > 0

\* The records carried by the upsert calls that succeeded during the first k
\* iterations of the day loop.
RECURSIVE AppliedByDays(_)
AppliedByDays(k) ==
    IF k = 0 THEN 0 ELSE AppliedByDays(k - 1) + d_outcomes[k].applied

\* C37: the total a per-day pipeline logs at completion equals the number of
\* records carried by the upsert calls that succeeded during the run, also
\* when an upsert fails part-way through the batches of a day.
C37_TotalCountsUpserted ==
    d_pc = "done" => total_records = AppliedByDays(Len(d_outcomes))

(***************************************************************************)
(* sanitize_records                                                        *)
(***************************************************************************)
\* A value is told apart by the library its type comes from, its type and a
\* token for what it holds.
PyNone == [lib |-> "python", type |-> "NoneType", v |-> "None"]

PythonValues ==
    {PyNone,
     [lib |-> "python", type |-> "int", v |-> "7"],
     [lib |-> "python", type |-> "float", v |-> "1.5"],
     [lib |-> "python", type |-> "float", v |-> "nan"],
     [lib |-> "python", type |-> "float", v |-> "inf"],
     [lib |-> "python", type |-> "float", v |-> "-inf"],
     [lib |-> "python", type |-> "str", v |-> "x"],
     [lib |-> "python", type |-> "str", v |-> "nan"],
     [lib |-> "python", type |-> "bool", v |-> "True"]}

NumpyValues ==
    {[lib |-> "numpy", type |-> "int64", v |-> "7"],
     [lib |-> "numpy", type |-> "float64", v |-> "1.5"],
     [lib |-> "numpy", type |-> "float64", v |-> "nan"],
     [lib |-> "numpy", type |-> "float64", v |-> "inf"],
     [lib |-> "numpy", type |-> "float64", v |-> "-inf"],
     [lib |-> "numpy", type |-> "float32", v |-> "1.5"],
     [lib |-> "numpy", type |-> "float32", v |-> "nan"],
     [lib |-> "numpy", type |-> "float32", v |-> "-inf"],
     [lib |-> "numpy", type |-> "bool_", v |-> "True"]}

PandasValues ==
    {[lib |-> "pandas", type |-> "NAType", v |-> "NA"],
     [lib |-> "pandas", type |-> "NaTType", v |-> "NaT"]}

SanValues == PythonValues \cup NumpyValues \cup PandasValues

\* The columns of a record.
Columns == {"value"}

\* isinstance(val, (np.integer, np.floating))
IsNumpyNumber(val) ==
    val.lib = "numpy" /\ val.type \in {"int64", "float64", "float32"}

\* val.item(): the native Python number of a numpy scalar.
Item(val) ==
    [lib |-> "python",
     type |-> IF val.type = "int64" THEN "int" ELSE "float",
     v |-> val.v]

\* isinstance(val, float): Python floats, and np.float64 which subclasses float.
IsFloat(val) ==
    \/ val.lib = "python" /\ val.type = "float"
    \/ val.lib = "numpy" /\ val.type = "float64"

\* math.isnan(val) or math.isinf(val)
IsNanOrInf(val) == val.v \in {"nan", "inf", "-inf"}

\* pd.isna(val) of a scalar: None, a float NaN, pd.NA, pd.NaT.
PdIsNa(val) ==
    \/ val.type \in {"NoneType", "NAType", "NaTType"}
    \/ val.type \in {"float", "float64", "float32"} /\ val.v = "nan"

\* Mutant of sanitize_value: numpy scalars are not unwrapped.
sanitize_value_no_item(val) ==
    IF val = PyNone THEN PyNone
    ELSE IF IsFloat(val) /\ IsNanOrInf(val) THEN PyNone
    ELSE IF PdIsNa(val) THEN PyNone
    ELSE val

\* sanitize_value, step by step.
sanitize_value(val) ==
    IF val = PyNone THEN PyNone
    ELSE LET unwrapped == IF IsNumpyNumber(val) THEN Item(val) ELSE val IN
         IF IsFloat(unwrapped) /\ IsNanOrInf(unwrapped) THEN PyNone
         ELSE IF PdIsNa(unwrapped) THEN PyNone
         ELSE unwrapped

\* [{k: sanitize_value(v) for k, v in record.items()} for record in records]
sanitize_records(recs) ==
    [i \in DOMAIN recs |->
        [k \in DOMAIN recs[i] |-> sanitize_value(recs[i][k])]]

SanFrame ==
    UNCHANGED <<retryVars, reportVars, pageVars, chunkVars, sinkVars, dayVars,
                entryVars, tokenVars, tagVars, textsVars, mainVars, rerunVars,
                loadVars, shareVars, analyticsVars, paceVars, dedupVars,
                advertsVars, orderVars>>

SanInit ==
    /\ z_pc = "start"
    /\ z_records \in UNION {[1..n -> [Columns -> SanValues]] : n \in 0..MaxSanLen}
    /\ z_out = <<>>

\* records = sanitize_records(records): on the argument first, then on its own
\* result.
SanitizeCall ==
    /\ z_pc \in {"start", "once"}
    /\ z_pc' = IF z_pc = "start" THEN "once" ELSE "twice"
    /\ z_out' = Append(z_out,
                   sanitize_records(IF z_pc = "start" THEN z_records
                                    ELSE z_out[Len(z_out)]))
    /\ UNCHANGED z_records
    /\ SanFrame

SanNext == SanitizeCall

InitSan ==
    SanInit /\ RetryIdle /\ ReportIdle /\ PageIdle /\ ChunkIdle /\ SinkIdle
    /\ OrderIdle
    /\ AdvertsIdle
    /\ DedupIdle
    /\ PaceIdle
    /\ AnalyticsIdle
    /\ ShareIdle
    /\ LoadIdle
    /\ RerunIdle
    /\ MainIdle
    /\ TextsIdle
    /\ TagIdle
    /\ TokenIdle
    /\ EntryIdle
    /\ DayIdle

SpecSan == InitSan /\ [][SanNext]_vars

\* A NaN, an infinity or a missing-value sentinel.
Missing(val) ==
    \/ val.v \in {"None", "NA", "NaT"}
    \/ val.type \in {"float", "float64", "float32"} /\ val.v \in {"nan", "inf", "-inf"}

\* A numeric scalar of the numeric library.
LibraryNumber(val) ==
    val.lib = "numpy" /\ val.type \in {"int64", "float64", "float32"}

Connectors == {"wb", "ozon", "ozon_performance"}

\* The endpoint kinds some connector knows, and one that none knows.
Endpoints ==
    {"sales_funnel", "adverts", "fullstats", "orders", "analytics_data",
     "campaigns", "campaign_product_stats", "bogus"}

\* The if / elif chain of each fetch_data.
Recognized(connector, ep) ==
    CASE connector = "wb" -> ep \in {"sales_funnel", "adverts", "fullstats", "orders"}
      [] connector = "ozon" -> ep = "analytics_data"
      [] connector = "ozon_performance" -> ep \in {"campaigns", "campaign_product_stats"}

\* The keyword argument is absent.
Absent == [given |-> FALSE, ids |-> <<>>]

\* The keyword argument carries the key list ids.
Given(ids) == [given |-> TRUE, ids |-> ids]

\* kwargs.get("advert_ids", []) / kwargs.get("campaign_ids", [])
KwargsGet(kw) == IF kw.given THEN kw.ids ELSE <<>>

\* raise WBConnectorError(...) / raise OzonConnectorError(...)
ConnectorError(connector, cause) ==
    [type |-> IF connector = "wb" THEN "WBConnectorError" ELSE "OzonConnectorError",
     cause |-> cause]

\* How the remote side may fail: not at all, a network failure, a non-2xx
\* status, a failing token request.
Failures == {"none", "network", "status", "token"}

\* n requests of one kind.
Repeat(req, n) == [i \in 1..n |-> req]

\* The requests of a method under retry_on_exception(max_retries=3): one when
\* the remote side answers, three when it keeps failing.
Retried(req, failure) ==
    IF failure = "none" THEN <<req>> ELSE Repeat(req, FetchMaxRetries)

\* The token request _get_headers makes on a connector without a cached
\* token; only the Performance connector has one.
TokenRequest(connector) ==
    IF connector = "ozon_performance" THEN <<"token">> ELSE <<>>

\* The requests of the method fetch_data delegates to.
Delegated(connector, ep, failure) ==
    CASE ep = "fullstats" -> <<"fullstats">>
      [] ep = "campaign_product_stats" ->
           IF failure = "token" THEN Repeat("token", FetchMaxRetries)
           ELSE IF failure = "none" THEN <<"token", "submit", "status", "download">>
           ELSE <<"token">> \o Repeat("submit", CreateMaxRetries)
      [] OTHER ->
           IF failure = "token" THEN Repeat("token", FetchMaxRetries)
           ELSE TokenRequest(connector) \o Retried(ep, failure)

\* if not campaign_ids: raise OzonConnectorError(...); the fullstats branch of
\* WBConnector.fetch_data has no such test.
EmptyKeysRejected(connector, ep, keys) ==
    connector = "ozon_performance" /\ ep = "campaign_product_stats" /\ keys = <<>>

EntryFrame ==
    UNCHANGED <<retryVars, reportVars, pageVars, chunkVars, sinkVars, dayVars,
                sanVars, tokenVars, tagVars, textsVars, mainVars, rerunVars,
                loadVars, shareVars, analyticsVars, paceVars, dedupVars,
                advertsVars, orderVars>>

EntryInit ==
    /\ f_pc = "call"
    /\ f_op \in {"fetch_data", "validate_connection"}
    /\ f_connector \in Connectors
    /\ endpoint \in (IF f_op = "fetch_data" THEN Endpoints ELSE {"none"})
    /\ f_keys \in (IF f_op = "fetch_data"
                     THEN {Absent} \cup {Given(KeyList(n)) : n \in 0..MaxEntryKeys}
                     ELSE {Absent})
    /\ f_failure \in Failures
    /\ f_failure = "token" => f_connector = "ozon_performance"
    /\ f_requests = <<>>
    /\ f_result = None
    /\ f_error = None

\* fetch_data: the dispatch on the endpoint kind and the method it calls.
FetchData ==
    /\ f_pc = "call"
    /\ f_op = "fetch_data"
    /\ LET keys == KwargsGet(f_keys) IN
       IF ~Recognized(f_connector, endpoint)
         THEN /\ f_pc' = "raised"
              /\ f_error' = ConnectorError(f_connector, "unknown_endpoint")
              /\ UNCHANGED <<f_requests, f_result>>
       ELSE IF EmptyKeysRejected(f_connector, endpoint, keys)
         THEN /\ f_pc' = "raised"
              /\ f_error' = ConnectorError(f_connector, "keys_required")
              /\ UNCHANGED <<f_requests, f_result>>
       ELSE IF endpoint = "fullstats" /\ keys = <<>>
         THEN \* fetch_fullstats_chunked: if not advert_ids: return []
              /\ f_pc' = "returned"
              /\ f_result' = [kind |-> "data", of |-> "nothing"]
              /\ UNCHANGED <<f_requests, f_error>>
         ELSE /\ f_requests' = Delegated(f_connector, endpoint, f_failure)
              /\ IF f_failure = "none"
                   THEN /\ f_pc' = "returned"
                        /\ f_result' = [kind |-> "data", of |-> endpoint]
                        /\ UNCHANGED f_error
                   ELSE /\ f_pc' = "raised"
                        /\ f_error' = HttpError
                        /\ UNCHANGED f_result
    /\ UNCHANGED <<f_op, f_connector, endpoint, f_keys, f_failure>>
    /\ EntryFrame

\* The requests of the health check of each connector.
HealthCheck(connector, failure) ==
    CASE connector = "wb" -> <<"adverts">>
      [] connector = "ozon" -> <<"analytics_data">>
      [] connector = "ozon_performance" ->
           IF failure = "token" THEN <<"token">>
           ELSE <<"token">> \o Retried("campaigns", failure)

\* return True / return False
Bool(b) == [kind |-> "bool", value |-> b]

\* Mutant of HandlerCatches: the handler is except httpx.HTTPError.
HandlerCatchesHttpOnly(failure) == failure \in {"network", "status"}

\* except Exception as e: every failure of the try body enters the handler.
HandlerCatches(failure) == failure # "none"

\* validate_connection: the health check inside try, return True; the handler
\* logs and returns False.
ValidateConnection ==
    /\ f_pc = "call"
    /\ f_op = "validate_connection"
    /\ f_requests' = HealthCheck(f_connector, f_failure)
    /\ IF f_failure = "none"
         THEN /\ f_pc' = "returned"
              /\ f_result' = Bool(TRUE)
              /\ UNCHANGED f_error
       ELSE IF HandlerCatches(f_failure)
         THEN /\ f_pc' = "returned"
              /\ f_result' = Bool(FALSE)
              /\ UNCHANGED f_error
         ELSE /\ f_pc' = "raised"
              /\ f_error' = HttpError
              /\ UNCHANGED f_result
    /\ UNCHANGED <<f_op, f_connector, endpoint, f_keys, f_failure>>
    /\ EntryFrame

EntryNext == FetchData \/ ValidateConnection

InitEntry ==
    EntryInit /\ RetryIdle /\ ReportIdle /\ PageIdle /\ ChunkIdle /\ SinkIdle
    /\ OrderIdle
    /\ AdvertsIdle
    /\ DedupIdle
    /\ PaceIdle
    /\ AnalyticsIdle
    /\ ShareIdle
    /\ LoadIdle
    /\ RerunIdle
    /\ MainIdle
    /\ TextsIdle
    /\ TagIdle
    /\ TokenIdle
    /\ DayIdle /\ SanIdle

SpecEntry == InitEntry /\ [][EntryNext]_vars

\* The endpoint kinds that need a non-empty key list.
NeedsKeys(ep) == ep \in {"fullstats", "campaign_product_stats"}

\* C18: fetch_data raises the connector's typed error, with no HTTP request
\* issued, when the endpoint kind is not one the connector knows or when the
\* key list the endpoint needs is missing or empty.
C18_FetchDataRejects ==
    (f_op = "fetch_data" /\ f_pc # "call"
       /\ (\/ ~Recognized(f_connector, endpoint)
           \/ (NeedsKeys(endpoint) /\ f_keys \in {Absent, Given(<<>>)}))) =>
        /\ f_pc = "raised"
        /\ f_error.type = (IF f_connector = "wb" THEN "WBConnectorError"
                           ELSE "OzonConnectorError")
        /\ f_requests = <<>>

\* C19: validate_connection never raises: it returns False for every failure
\* of the health-check request, token failure included, and True only when
\* the request went through.
C19_ValidateNeverRaises ==
    (f_op = "validate_connection" /\ f_pc # "call") =>
        /\ f_pc = "returned"
        /\ f_error = None
        /\ f_result = Bool(f_failure = "none")
        /\ f_requests # <<>>

\* C19 witness: the token request of the Performance connector failed and
\* the health check returned False.
C19_Witness ==
    /\ f_op = "validate_connection"
    /\ f_connector = "ozon_performance"
    /\ f_failure = "token"
    /\ f_pc = "returned"
    /\ f_result = Bool(FALSE)

(***************************************************************************)
(* OzonPerformanceConnector._get_access_token and _get_headers             *)
(***************************************************************************)
\* timedelta(minutes=5)
RefreshMargin == 5

\* data.get("expires_in", 1800), in minutes: shorter than the margin, equal to
\* it, longer, and the default.
ExpiresIn == {3, 5, 8, 30}

\* How the POST to TOKEN_URL ends: a token with a numeric expires_in is
\* stored; the request fails (transport error, non-2xx status, no access_token
\* in the body) before anything is assigned; or the body has an access_token
\* and an expires_in that timedelta(seconds=...) rejects (null, a string), so
\* that the assignment of self.access_token has run and the one of
\* self.token_expires_at has not.
TokenAnswers == {"token", "failed", "bad_expires_in"}

\* Mutant of CachedTokenValid: a cached token is never reused.
CachedTokenValidNever(token, expires, t) == FALSE

\* Mutant of CachedTokenValid: the token is reused up to its expiry.
CachedTokenValidNoMargin(token, expires, t) == token # 0 /\ t < expires

\* if self.access_token and self.token_expires_at:
\*     if datetime.now() < self.token_expires_at - timedelta(minutes=5):
CachedTokenValid(token, expires, t) ==
    token # 0 /\ t < expires - RefreshMargin

TokenFrame ==
    UNCHANGED <<retryVars, reportVars, pageVars, chunkVars, sinkVars, dayVars,
                sanVars, entryVars, tagVars, textsVars, mainVars, rerunVars,
                loadVars, shareVars, analyticsVars, paceVars, dedupVars,
                advertsVars, orderVars>>

\* A connector just constructed: access_token = None, token_expires_at = None.
TokenInit ==
    /\ t_pc = "ready"
    /\ now = 0
    /\ access_token = 0
    /\ token_expires_at = 0
    /\ t_calls = 0
    /\ t_token_requests = 0
    /\ t_last = NoCall

\* _get_headers: _get_access_token returns the cached token or POSTs for a new
\* one; the POST ends in one of the TokenAnswers, and when it raises no headers
\* are built.
GetHeaders ==
    /\ t_pc = "ready"
    /\ t_calls < MaxTokenCalls
    /\ t_calls' = t_calls + 1
    /\ IF CachedTokenValid(access_token, token_expires_at, now)
         THEN /\ t_last' = [called |-> TRUE, had |-> access_token # 0,
                            left |-> token_expires_at - now, requested |-> FALSE,
                            sent |-> TRUE, token |-> access_token,
                            header_left |-> token_expires_at - now,
                            answer |-> "none"]
              /\ UNCHANGED <<access_token, token_expires_at, t_token_requests>>
         ELSE /\ t_token_requests' = t_token_requests + 1
              /\ \E answer \in TokenAnswers, expires_in \in ExpiresIn :
                   CASE answer = "token" ->
                          /\ access_token' = t_token_requests + 1
                          /\ token_expires_at' = now + expires_in
                          /\ t_last' = [called |-> TRUE, had |-> access_token # 0,
                                        left |-> token_expires_at - now,
                                        requested |-> TRUE, sent |-> TRUE,
                                        token |-> t_token_requests + 1,
                                        header_left |-> expires_in,
                                        answer |-> answer]
                     [] answer = "failed" ->
                          /\ t_last' = [called |-> TRUE, had |-> access_token # 0,
                                        left |-> token_expires_at - now,
                                        requested |-> TRUE, sent |-> FALSE,
                                        token |-> 0, header_left |-> 0,
                                        answer |-> answer]
                          /\ UNCHANGED <<access_token, token_expires_at>>
                     [] answer = "bad_expires_in" ->
                          /\ access_token' = t_token_requests + 1
                          /\ t_last' = [called |-> TRUE, had |-> access_token # 0,
                                        left |-> token_expires_at - now,
                                        requested |-> TRUE, sent |-> FALSE,
                                        token |-> 0, header_left |-> 0,
                                        answer |-> answer]
                          /\ UNCHANGED token_expires_at
    /\ UNCHANGED <<t_pc, now>>
    /\ TokenFrame

\* Time passes between two calls.
Tick ==
    /\ t_pc = "ready"
    /\ \E dt \in 1..MaxTick :
         /\ now + dt <= MaxTime
         /\ now' = now + dt
    /\ UNCHANGED <<t_pc, access_token, token_expires_at, t_calls,
                   t_token_requests, t_last>>
    /\ TokenFrame

TokenNext == GetHeaders \/ Tick

InitToken ==
    TokenInit /\ RetryIdle /\ ReportIdle /\ PageIdle /\ ChunkIdle /\ SinkIdle
    /\ OrderIdle
    /\ AdvertsIdle
    /\ DedupIdle
    /\ PaceIdle
    /\ AnalyticsIdle
    /\ ShareIdle
    /\ LoadIdle
    /\ RerunIdle
    /\ MainIdle
    /\ TextsIdle
    /\ TagIdle
    /\ DayIdle /\ SanIdle /\ EntryIdle

SpecToken == InitToken /\ [][TokenNext]_vars

\* C20: a call issues a token request exactly when no token was cached or the
\* cached one had five minutes or less left; headers are only ever built with
\* a token that was just obtained or had more than five minutes left, and a
\* call that finds more than five minutes left reuses the cached token.
C20_TokenRefresh ==
    t_last.called =>
        /\ t_last.requested = (~t_last.had \/ t_last.left <= 5)
        /\ t_last.sent => (t_last.requested \/ t_last.header_left > 5)
        /\ (t_last.had /\ t_last.left > 5) =>
              /\ ~t_last.requested
              /\ t_last.sent
              /\ t_last.token = access_token
        /\ t_last.sent => t_last.token = access_token /\ t_last.token # 0
    /\ t_token_requests <= t_calls

\* C20 witness: a cached token with more than five minutes left was reused,
\* after an earlier token had been replaced inside the margin.
C20_Witness ==
    /\ t_last.called
    /\ t_last.had
    /\ ~t_last.requested
    /\ t_last.left > 5
    /\ access_token >= 2

\* C34: a call whose token request fails raises and leaves the cached token
\* and its expiry as they were, and the cached token and the expiry are only
\* ever replaced together, by a call that returns the new token.
C34_TokenReplacedTogether ==
    [][/\ (t_last'.called /\ t_last'.requested /\ ~t_last'.sent) =>
              UNCHANGED <<access_token, token_expires_at>>
       /\ (access_token' # access_token \/ token_expires_at' # token_expires_at) =>
              /\ t_last'.requested
              /\ t_last'.sent
              /\ access_token' = t_last'.token
              /\ token_expires_at' = now + t_last'.header_left]_vars

(***************************************************************************)
(* _tag (src/agents/daily_sql_agent.py)                                    *)
(***************************************************************************)
\* Values of drr_percent around the thresholds 15, 40 and 60.
DrrValues ==
    {NoField, NullField, NanField}
    \cup {Num(n) : n \in {-1, 0, 14, 15, 16, 39, 40, 41, 59, 60, 61}}

\* Values of revenue_total around the thresholds 5000 and 10000.
RevenueValues ==
    {NoField, NullField, NanField}
    \cup {Num(n) : n \in {-1, 0, 4999, 5000, 5001, 9999, 10000, 10001}}

\* Values of ad_orders around the threshold 5 (normalize_row leaves an int).
OrderValues == {NoField, NullField} \cup {Num(n) : n \in {-1, 0, 4, 5, 6}}

\* r.get(field) or 0: an absent field, None and 0 give 0; NaN is truthy.
GetOrZero(v) == IF v.kind \in {"missing", "none"} THEN Num(0) ELSE v

\* Python's >=, <= and < on floats: every comparison with NaN is False.
Ge(v, n) == v.kind = "num" /\ v.n >= n
Le(v, n) == v.kind = "num" /\ v.n <= n
Lt(v, n) == v.kind = "num" /\ v.n < n

\* Mutant of TagOf: the CUT rule is tried before the PAUSE rule.
TagCutFirst(r) ==
    LET drr == GetOrZero(r.drr_percent)
        rev == GetOrZero(r.revenue_total)
        orders == GetOrZero(r.ad_orders) IN
    IF Ge(drr, 40) /\ Lt(rev, 10000) THEN "CUT"
    ELSE IF Ge(drr, 60) /\ Lt(rev, 5000) THEN "PAUSE"
    ELSE IF Le(drr, 15) /\ Ge(orders, 5) THEN "SCALE"
    ELSE "WATCH"

\* _tag(r)
TagOf(r) ==
    LET drr == GetOrZero(r.drr_percent)
        rev == GetOrZero(r.revenue_total)
        orders == GetOrZero(r.ad_orders) IN
    IF Ge(drr, 60) /\ Lt(rev, 5000) THEN "PAUSE"
    ELSE IF Ge(drr, 40) /\ Lt(rev, 10000) THEN "CUT"
    ELSE IF Le(drr, 15) /\ Ge(orders, 5) THEN "SCALE"
    ELSE "WATCH"

TagFrame ==
    UNCHANGED <<retryVars, reportVars, pageVars, chunkVars, sinkVars, dayVars,
                sanVars, entryVars, tokenVars, textsVars, mainVars, rerunVars,
                loadVars, shareVars, analyticsVars, paceVars, dedupVars,
                advertsVars, orderVars>>

TagInit ==
    /\ g_pc = "call"
    /\ g_row \in [drr_percent : DrrValues, revenue_total : RevenueValues,
                  ad_orders : OrderValues]
    /\ g_tag = "none"

\* nr["tag"] = _tag(nr)
TagRow ==
    /\ g_pc = "call"
    /\ g_tag' = TagOf(g_row)
    /\ g_pc' = "returned"
    /\ UNCHANGED g_row
    /\ TagFrame

TagNext == TagRow

InitTag ==
    TagInit /\ ReportIdle /\ PageIdle /\ ChunkIdle /\ SinkIdle /\ DayIdle
    /\ OrderIdle
    /\ AdvertsIdle
    /\ DedupIdle
    /\ PaceIdle
    /\ AnalyticsIdle
    /\ ShareIdle
    /\ LoadIdle
    /\ RerunIdle
    /\ MainIdle
    /\ TextsIdle
    /\ TokenIdle /\ EntryIdle /\ SanIdle /\ RetryIdle

SpecTag == InitTag /\ [][TagNext]_vars

\* The number a field counts as: 0 when absent or None.
Counted(v) == IF v.kind = "num" THEN v.n ELSE 0

\* A field that holds a number, or none at all.
Comparable(v) == v.kind # "nan"

\* C30: every row gets exactly one of the four tags, the first that matches
\* in the order PAUSE (drr_percent >= 60 and revenue_total < 5000), CUT
\* (drr_percent >= 40 and revenue_total < 10000), SCALE (drr_percent <= 15 and
\* ad_orders >= 5), else WATCH, an absent or null field counting as 0.
C30_TagFirstMatch ==
    g_pc = "returned" =>
      LET drr == Counted(g_row.drr_percent)
          rev == Counted(g_row.revenue_total)
          orders == Counted(g_row.ad_orders)
          known == Comparable(g_row.drr_percent) /\ Comparable(g_row.revenue_total)
          pause == drr >= 60 /\ rev < 5000
          cut == drr >= 40 /\ rev < 10000
          scale == drr <= 15 /\ orders >= 5 IN
      /\ g_tag \in {"PAUSE", "CUT", "SCALE", "WATCH"}
      /\ known =>
           /\ (g_tag = "PAUSE") = pause
           /\ (g_tag = "CUT") = (~pause /\ cut)
           /\ (g_tag = "SCALE") = (~pause /\ ~cut /\ scale)
           /\ (g_tag = "WATCH") = (~pause /\ ~cut /\ ~scale)

\* C30 witness: a row that matches both the PAUSE and the CUT rule, with
\* ad_orders absent, was tagged PAUSE.
C30_Witness ==
    /\ g_pc = "returned"
    /\ g_row.drr_percent = Num(60)
    /\ g_row.revenue_total = Num(4999)
    /\ g_row.ad_orders = NoField
    /\ g_tag = "PAUSE"

(***************************************************************************)
(* run_search_texts_pipeline: the per-day loop that reads its product ids   *)
(* from the search-report table                                            *)
(***************************************************************************)
\* resp.data of the select on the search-report table for one day: the nm_id
\* column of its rows, 0 standing for a NULL nm_id.
SinkRows == {<<>>, <<0>>, <<1, 1>>, <<2, 1, 0>>}

\* What an iteration with product ids comes to: the chunked fetch raises, it
\* returns no items, the transform gives an empty frame, the upsert raises,
\* or the records are upserted.
TextsOutcomes == {"fetch_failed", "no_items", "no_rows", "upsert_failed", "upserted"}

\* Mutant of NmIds: the rows without an nm_id are kept.
NmIdsUnfiltered(rows) == {rows[i] : i \in DOMAIN rows}

\* nm_ids = list({r["nm_id"] for r in (resp.data or []) if r.get("nm_id")})
NmIds(rows) == {rows[i] : i \in {j \in DOMAIN rows : rows[j] # 0}}

\* A log line that names a day.
Line(level, what, day) == [level |-> level, what |-> what, day |-> day]

\* No connector request.
NoRequest == [sent |-> FALSE, nm_ids |-> {}, start |-> 0, end |-> 0]

\* connector.fetch_product_search_texts_chunked(nm_ids=nm_ids, start=date_str,
\* end=date_str, ...)
TextsRequest(nm_ids, date_str) ==
    [sent |-> TRUE, nm_ids |-> nm_ids, start |-> date_str, end |-> date_str]

TextsFrame ==
    UNCHANGED <<retryVars, reportVars, pageVars, chunkVars, sinkVars, dayVars,
                sanVars, entryVars, tokenVars, tagVars, mainVars, rerunVars,
                loadVars, shareVars, analyticsVars, paceVars, dedupVars,
                advertsVars, orderVars>>

TextsInit ==
    /\ x_pc = "loop"
    /\ x_from \in 1..MaxTextDays
    /\ x_to \in x_from..MaxTextDays
    /\ x_date = x_from
    /\ x_total = 0
    /\ x_iters = <<>>
    /\ x_log = <<>>

\* An iteration whose select on the search-report table raises: the except
\* clause logs the day, then the sleep and the date step.
TextsLookupFails ==
    /\ x_pc = "loop"
    /\ DayLoopCondition(x_date, x_to)
    /\ x_log' = x_log \o <<Line("info", "processing", x_date),
                           Line("error", "failed", x_date)>>
    /\ x_iters' = Append(x_iters,
           [day |-> x_date, read |-> FALSE, rows |-> <<>>, nm_ids |-> {},
            request |-> NoRequest, upserts |-> 0, outcome |-> "lookup_failed",
            slept |-> SleepAfterDay(x_date, x_to)])
    /\ x_date' = NextDate(x_date)
    /\ UNCHANGED <<x_pc, x_from, x_to, x_total>>
    /\ TextsFrame

\* An iteration that finds no product id for the day: one info line, the date
\* step and continue.
TextsSkip ==
    /\ x_pc = "loop"
    /\ DayLoopCondition(x_date, x_to)
    /\ \E rows \in SinkRows :
         /\ NmIds(rows) = {}
         /\ x_iters' = Append(x_iters,
                [day |-> x_date, read |-> TRUE, rows |-> rows, nm_ids |-> NmIds(rows),
                 request |-> NoRequest, upserts |-> 0, outcome |-> "skipped",
                 slept |-> FALSE])
    /\ x_log' = x_log \o <<Line("info", "processing", x_date),
                           Line("info", "skipping", x_date)>>
    /\ x_date' = NextDate(x_date)
    /\ UNCHANGED <<x_pc, x_from, x_to, x_total>>
    /\ TextsFrame

\* An iteration with product ids: the chunked fetch, the transform, the
\* sanitizer and the batch upsert inside the try, the except clause, the
\* sleep and the date step.
TextsFetch ==
    /\ x_pc = "loop"
    /\ DayLoopCondition(x_date, x_to)
    /\ \E rows \in SinkRows, outcome \in TextsOutcomes :
         LET nm_ids == NmIds(rows)
             n == Cardinality(nm_ids) IN
         /\ nm_ids # {}
         /\ x_iters' = Append(x_iters,
                [day |-> x_date, read |-> TRUE, rows |-> rows, nm_ids |-> nm_ids,
                 request |-> TextsRequest(nm_ids, x_date),
                 upserts |-> IF outcome \in {"upsert_failed", "upserted"} THEN 1 ELSE 0,
                 outcome |-> outcome,
                 slept |-> SleepAfterDay(x_date, x_to)])
         /\ x_total' = IF outcome = "upserted" THEN x_total + n ELSE x_total
         /\ x_log' = x_log \o
                <<Line("info", "processing", x_date), Line("info", "found", x_date)>>
                \o (CASE outcome = "upserted" -> <<Line("info", "upserted", x_date)>>
                      [] outcome = "no_rows" -> <<Line("info", "no_data", x_date)>>
                      [] outcome = "no_items" -> <<Line("info", "no_texts", x_date)>>
                      [] OTHER -> <<Line("error", "failed", x_date)>>)
    /\ x_date' = NextDate(x_date)
    /\ UNCHANGED <<x_pc, x_from, x_to>>
    /\ TextsFrame

\* The loop condition fails: the completion line with total_records.
TextsLoopExit ==
    /\ x_pc = "loop"
    /\ ~DayLoopCondition(x_date, x_to)
    /\ x_pc' = "done"
    /\ UNCHANGED <<x_from, x_to, x_date, x_total, x_iters, x_log>>
    /\ TextsFrame

TextsNext == TextsLookupFails \/ TextsSkip \/ TextsFetch \/ TextsLoopExit

InitTexts ==
    TextsInit /\ ReportIdle /\ PageIdle /\ ChunkIdle /\ SinkIdle /\ DayIdle
    /\ OrderIdle
    /\ AdvertsIdle
    /\ DedupIdle
    /\ PaceIdle
    /\ AnalyticsIdle
    /\ ShareIdle
    /\ LoadIdle
    /\ RerunIdle
    /\ MainIdle
    /\ TagIdle /\ TokenIdle /\ EntryIdle /\ SanIdle /\ RetryIdle

SpecTexts == InitTexts /\ [][TextsNext]_vars

\* The nm_id values present in the rows read for a day.
ValuesRead(rows) == {v \in {1, 2} : \E i \in DOMAIN rows : rows[i] = v}

\* The lines of the log that name a day.
LinesOf(day) == {i \in DOMAIN x_log : x_log[i].day = day}

\* C21: the product ids requested for a day are exactly the distinct nm_id
\* values of the rows read from the search-report table for that day, over the
\* one-day window of that day; a day without such rows sends no request,
\* upserts nothing, logs no error, does not sleep, and the loop goes on with
\* the next day.
C21_TextsKeysFromSink ==
    \A i \in DOMAIN x_iters :
      LET it == x_iters[i] IN
      /\ it.day = x_from + i - 1
      /\ it.read =>
           /\ it.nm_ids = ValuesRead(it.rows)
           /\ it.request.sent = (ValuesRead(it.rows) # {})
           /\ it.request.sent =>
                /\ it.request.nm_ids = ValuesRead(it.rows)
                /\ it.request.start = it.day
                /\ it.request.end = it.day
           /\ ValuesRead(it.rows) = {} =>
                /\ it.upserts = 0
                /\ ~it.slept
                /\ \A j \in LinesOf(it.day) : x_log[j].level # "error"
                /\ IF i < Len(x_iters) THEN x_iters[i + 1].day = it.day + 1
                   ELSE x_date = it.day + 1
      /\ ~it.read => ~it.request.sent /\ it.upserts = 0

\* C21 witness: in one window a day with rows was fetched for its two distinct
\* ids and the following day, whose only row has no nm_id, was skipped.
C21_Witness ==
    /\ Len(x_iters) >= 2
    /\ x_iters[1].rows = <<2, 1, 0>>
    /\ x_iters[1].request.nm_ids = {1, 2}
    /\ x_iters[2].rows = <<0>>
    /\ x_iters[2].outcome = "skipped"

(***************************************************************************)
(* The pipeline loops together: the per-day loops and the campaign batches *)
(***************************************************************************)
InitPipelineLoops == InitDay \/ InitTexts \/ InitChunk

PipelineLoopsNext == DayNext \/ TextsNext \/ ChunkNext

SpecPipelineLoops == InitPipelineLoops /\ [][PipelineLoopsNext]_vars

\* The smaller of two numbers.
Min(a, b) == IF a < b THEN a ELSE b

\* C25: in every pipeline loop over days or campaign batches a rate-limit
\* sleep lies between any two consecutive iterations that each issue a
\* connector request, also when the earlier one failed, and the final
\* iteration is not followed by a sleep.
C25_SleepBetweenIterations ==
    /\ d_pc # "idle" =>
         d_sleeps = Min(Len(d_visited), date_to - date_from)
    /\ \A i, j \in DOMAIN x_iters :
         (i < j /\ x_iters[i].request.sent /\ x_iters[j].request.sent) =>
            \E k \in i..(j - 1) : x_iters[k].slept
    /\ \A i \in DOMAIN x_iters : x_iters[i].day = x_to => ~x_iters[i].slept
    /\ c_kind = "ozon_performance" =>
         c_sleeps = (IF c_idx = 0 THEN 0
                     ELSE Min(c_idx, TotalBatches(c_keys)) - 1)

\* The per-day loops.
InitDays == InitDay \/ InitTexts

DaysNext == DayNext \/ TextsNext

SpecDays == InitDays /\ [][DaysNext]_vars

\* The loops keep running until they are through.
SpecDaysFair == SpecDays /\ WF_vars(DaysNext)

\* The records counted by the first k iterations of a day loop.
RECURSIVE CountedByDays(_)
CountedByDays(k) ==
    IF k = 0 THEN 0
    ELSE CountedByDays(k - 1)
         + (IF d_outcomes[k].failed THEN 0 ELSE d_outcomes[k].n)

\* The records counted by the first k iterations of the search-texts loop.
RECURSIVE CountedByTexts(_)
CountedByTexts(k) ==
    IF k = 0 THEN 0
    ELSE CountedByTexts(k - 1)
         + (IF x_iters[k].outcome = "upserted"
              THEN Cardinality(x_iters[k].nm_ids) ELSE 0)

\* Every day the loop is through with has a log line naming it, whatever it
\* came to, and the count of the completion line is the sum over the days that
\* were upserted.
C29_DayLoggedInv ==
    /\ d_pc # "idle" =>
         /\ \A day \in date_from..date_to :
              (day < current_date \/ d_pc = "done") =>
                 \E i \in DOMAIN d_visited : d_visited[i] = day
         /\ total_records = CountedByDays(Len(d_outcomes))
    /\ x_pc # "idle" =>
         /\ \A day \in x_from..x_to :
              (day < x_date \/ x_pc = "done") => LinesOf(day) # {}
         /\ \A i \in DOMAIN x_iters : LinesOf(x_iters[i].day) # {}
         /\ x_total = CountedByTexts(Len(x_iters))

\* C29: every day of the window of a per-day pipeline gets at least one log
\* line naming it, whether it was upserted, had no data, was skipped or
\* failed, and the loop always reaches its completion line, which carries the
\* total record count, whichever days failed.
C29_EveryDayLogged ==
    /\ []C29_DayLoggedInv
    /\ (d_pc = "loop") ~> (d_pc = "done")
    /\ (x_pc = "loop") ~> (x_pc = "done")

\* C29 witness: the search-texts loop is through with a three-day window in
\* which one day failed in the lookup, one was skipped and one was upserted.
C29_Witness ==
    /\ x_pc = "done"
    /\ Len(x_iters) = 3
    /\ x_iters[1].outcome = "lookup_failed"
    /\ x_iters[2].outcome = "skipped"
    /\ x_iters[3].outcome = "upserted"
    /\ x_total > 0

(***************************************************************************)
(* main: the orchestration of the pipelines                                *)
(***************************************************************************)
\* date.today(), as a day number.
Today == 10

\* The pipelines in the order main tests their run flags.
PipelineOrder ==
    <<"adverts_settings", "sales_funnel", "fullstats", "spp", "search_report",
      "search_texts", "normquery", "ozon_analytics", "ozon_performance",
      "ozon_sku_promo">>

\* The pipelines main starts only when the Ozon credentials are set.
OzonPipelines == {"ozon_analytics", "ozon_performance", "ozon_sku_promo"}

\* Where a pipeline can raise outside its per-iteration try blocks; the
\* per-day pipelines catch everything inside the iteration.  The connector of
\* the SKU-promo pipeline has no fetch_sku_promo_orders method.
PipelineOutcomes(p) ==
    CASE p = "adverts_settings" -> {"completed", "fetch", "upsert"}
      [] p = "fullstats" -> {"completed", "lookup", "fetch", "upsert"}
      [] p = "normquery" -> {"completed", "lookup", "upsert"}
      [] p = "ozon_analytics" -> {"completed", "validate", "fetch", "upsert"}
      [] p = "ozon_performance" -> {"completed", "validate", "fetch"}
      [] p = "ozon_sku_promo" -> {"fetch"}
      [] OTHER -> {"completed"}

\* spp_start = date_to - timedelta(days=settings.SPP_OVERLAP_DAYS - 1)
SppStart(to, spp_overlap) == to - (spp_overlap - 1)

\* The date window main passes to a pipeline; the adverts settings pipeline
\* takes none.
Window(p, from, to, spp_overlap) ==
    CASE p = "adverts_settings" -> [windowed |-> FALSE, start |-> 0, end |-> 0]
      [] p \in {"sales_funnel", "ozon_analytics", "ozon_performance", "ozon_sku_promo"} ->
           [windowed |-> TRUE, start |-> from, end |-> to]
      [] p = "spp" ->
           [windowed |-> TRUE, start |-> SppStart(to, spp_overlap), end |-> to]
      [] OTHER -> [windowed |-> TRUE, start |-> to, end |-> to]

\* Mutant of Reraised: main goes on after a pipeline has raised.
ReraisedNever(outcome) == FALSE

\* except Exception as e: logger.error(...); raise  (pipeline and main)
Reraised(outcome) == outcome # "completed"

\* The exception main re-raises.
MainError(site, what) == [kind |-> "error", site |-> site, what |-> what]

MainFrame ==
    UNCHANGED <<retryVars, reportVars, pageVars, chunkVars, sinkVars, dayVars,
                sanVars, entryVars, tokenVars, tagVars, textsVars, rerunVars,
                loadVars, shareVars, analyticsVars, paceVars, dedupVars,
                advertsVars, orderVars>>

MainInit ==
    /\ m_pc = "start"
    /\ OVERLAP_DAYS \in 0..MaxOverlap
    /\ SPP_OVERLAP_DAYS \in 0..MaxOverlap
    /\ m_date_from = 0
    /\ m_date_to = 0
    /\ m_next = 1
    /\ m_started = <<>>
    /\ m_error = None

\* main up to the first flag test: the Supabase key, the connector, the
\* connection validation and the date range.
MainStart ==
    /\ m_pc = "start"
    /\ \E failure \in {"none", "supabase_key", "validate_connection"} :
         IF failure = "none"
           THEN /\ m_pc' = "run"
                /\ m_date_to' = Today - 1
                /\ m_date_from' = (Today - 1) - OVERLAP_DAYS
                /\ UNCHANGED m_error
           ELSE /\ m_pc' = "raised"
                /\ m_error' = MainError("main", failure)
                /\ UNCHANGED <<m_date_from, m_date_to>>
    /\ UNCHANGED <<OVERLAP_DAYS, SPP_OVERLAP_DAYS, m_next, m_started>>
    /\ MainFrame

\* One flag test of main and the pipeline run it guards.  The flag is read
\* here for the only time; settings has no RUN_OZON_SKU_PROMO field, so that
\* flag may be undefined.
MainPipeline ==
    /\ m_pc = "run"
    /\ m_next <= Len(PipelineOrder)
    /\ LET p == PipelineOrder[m_next] IN
       \E flag \in {"undefined", "off", "on"}, credentials \in BOOLEAN,
          outcome \in PipelineOutcomes(p) :
         /\ flag = "undefined" => p = "ozon_sku_promo"
         /\ credentials \/ p \in OzonPipelines
         /\ CASE flag = "undefined" ->
                   /\ m_pc' = "raised"
                   /\ m_error' = MainError("main", "RUN_OZON_SKU_PROMO")
                   /\ UNCHANGED <<m_next, m_started>>
              [] flag = "off" \/ (flag = "on" /\ ~credentials) ->
                   /\ m_next' = m_next + 1
                   /\ UNCHANGED <<m_pc, m_started, m_error>>
              [] flag = "on" /\ credentials ->
                   /\ m_started' = Append(m_started,
                         [pipeline |-> p, outcome |-> outcome,
                          window |-> Window(p, m_date_from, m_date_to, SPP_OVERLAP_DAYS)])
                   /\ IF Reraised(outcome)
                        THEN /\ m_pc' = "raised"
                             /\ m_error' = MainError(p, outcome)
                             /\ UNCHANGED m_next
                        ELSE /\ m_next' = m_next + 1
                             /\ UNCHANGED <<m_pc, m_error>>
    /\ UNCHANGED <<OVERLAP_DAYS, SPP_OVERLAP_DAYS, m_date_from, m_date_to>>
    /\ MainFrame

\* All flags tested: "All ETL pipelines completed successfully!"
MainDone ==
    /\ m_pc = "run"
    /\ m_next > Len(PipelineOrder)
    /\ m_pc' = "done"
    /\ UNCHANGED <<OVERLAP_DAYS, SPP_OVERLAP_DAYS, m_date_from, m_date_to,
                   m_next, m_started, m_error>>
    /\ MainFrame

MainNext == MainStart \/ MainPipeline \/ MainDone

InitMain ==
    MainInit /\ ReportIdle /\ PageIdle /\ ChunkIdle /\ SinkIdle /\ DayIdle
    /\ OrderIdle
    /\ AdvertsIdle
    /\ DedupIdle
    /\ PaceIdle
    /\ AnalyticsIdle
    /\ ShareIdle
    /\ LoadIdle
    /\ RerunIdle
    /\ TextsIdle /\ TagIdle /\ TokenIdle /\ EntryIdle /\ SanIdle /\ RetryIdle

SpecMain == InitMain /\ [][MainNext]_vars

\* The position of a pipeline in main's order.
OrderOf(p) == CHOOSE i \in DOMAIN PipelineOrder : PipelineOrder[i] = p

\* A failure outside the iterations ends the run: the pipeline that raised is
\* the last one started, main has re-raised its error, and a failed
\* validation leaves no pipeline started at all.
C22_FatalInv ==
    /\ \A i \in DOMAIN m_started :
         /\ \A j \in DOMAIN m_started :
              i < j => OrderOf(m_started[i].pipeline) < OrderOf(m_started[j].pipeline)
         /\ m_started[i].outcome # "completed" =>
              /\ i = Len(m_started)
              /\ m_pc = "raised"
              /\ m_error = MainError(m_started[i].pipeline, m_started[i].outcome)
    /\ (m_error # None /\ m_error.what = "validate_connection") =>
         /\ m_pc = "raised"
         /\ m_started = <<>>
    /\ m_pc = "raised" <=> m_error # None

\* C22: an error raised outside a per-iteration boundary (the connection
\* validation returning failure, the advert-id or advert+nm lookup in the
\* sink) is re-raised by main and ends the run: no pipeline later in main's
\* order is ever started.
C22_FatalOutsideIteration ==
    /\ []C22_FatalInv
    /\ [][(m_pc = "raised") => (m_pc' = "raised" /\ m_started' = m_started)]_vars

\* C22 witness: the advert-id lookup of the fullstats pipeline raised after
\* the sales funnel pipeline had completed, and main has re-raised.
C22_Witness ==
    /\ m_pc = "raised"
    /\ Len(m_started) = 2
    /\ m_started[1].pipeline = "sales_funnel"
    /\ m_started[2].pipeline = "fullstats"
    /\ m_started[2].outcome = "lookup"

\* C28: every date window main passes to a pipeline has start <= end, for
\* every OVERLAP_DAYS >= 0 and SPP_OVERLAP_DAYS >= 0.
C28_WindowOrdered ==
    \A i \in DOMAIN m_started :
       m_started[i].window.windowed =>
          m_started[i].window.start <= m_started[i].window.end

(***************************************************************************)
(* A run that stops between two upsert batches, followed by a run over an  *)
(* overlapping window                                                      *)
(***************************************************************************)
\* What the table may hold before the first run: nothing, or a stale row of a
\* key the window writes next to a row of another key.
BaseTables ==
    {{}, {[date |-> 1, sku |-> 1, val |-> "b"], [date |-> 2, sku |-> 2, val |-> "a"]}}

\* The records the later run obtains: the same source data for the days both
\* windows cover, then the days only the later window covers.
RerunRecords == v_records \o v_extra

RerunFrame ==
    UNCHANGED <<retryVars, reportVars, pageVars, chunkVars, sinkVars, dayVars,
                sanVars, entryVars, tokenVars, tagVars, textsVars, mainVars,
                loadVars, shareVars, analyticsVars, paceVars, dedupVars,
                advertsVars, orderVars>>

\* The first run has reached its batch-upsert loop.
RerunInit ==
    /\ v_pc = "first"
    /\ v_base \in BaseTables
    /\ v_records \in UNION {[1..n -> Records] : n \in 0..MaxRerunRecords}
    /\ v_extra = <<>>
    /\ v_batch_size \in 1..MaxBatch
    /\ v_i = 0
    /\ v_applied = 0
    /\ v_table = v_base

\* One iteration of the first run's upsert loop: the batch is upserted, or the
\* call raises or the process dies and the run stops there.
FirstUpsert ==
    /\ v_pc = "first"
    /\ v_i < Len(v_records)
    /\ \E ok \in BOOLEAN :
         IF ok
           THEN /\ v_table' = UpsertRows(v_table, BatchAt(v_records, v_i, v_batch_size))
                /\ v_i' = v_i + v_batch_size
                /\ v_applied' = v_applied + 1
                /\ UNCHANGED v_pc
           ELSE /\ v_pc' = "interrupted"
                /\ UNCHANGED <<v_table, v_i, v_applied>>
    /\ UNCHANGED <<v_base, v_records, v_extra, v_batch_size>>
    /\ RerunFrame

\* The first run's loop is used up.
FirstDone ==
    /\ v_pc = "first"
    /\ v_i >= Len(v_records)
    /\ v_pc' = "completed"
    /\ UNCHANGED <<v_base, v_records, v_extra, v_batch_size, v_i, v_applied, v_table>>
    /\ RerunFrame

\* The next invocation of main: its window covers the earlier one and possibly
\* later days, and its upsert loop starts from the first record again.
SecondStart ==
    /\ v_pc \in {"interrupted", "completed"}
    /\ v_pc' = "second"
    /\ v_extra' \in UNION {[1..n -> Records] : n \in 0..1}
    /\ v_i' = 0
    /\ UNCHANGED <<v_base, v_records, v_batch_size, v_applied, v_table>>
    /\ RerunFrame

\* One iteration of the later run's upsert loop.
SecondUpsert ==
    /\ v_pc = "second"
    /\ v_i < Len(RerunRecords)
    /\ \E ok \in BOOLEAN :
         IF ok
           THEN /\ v_table' = UpsertRows(v_table, BatchAt(RerunRecords, v_i, v_batch_size))
                /\ v_i' = v_i + v_batch_size
                /\ UNCHANGED v_pc
           ELSE /\ v_pc' = "failed"
                /\ UNCHANGED <<v_table, v_i>>
    /\ UNCHANGED <<v_base, v_records, v_extra, v_batch_size, v_applied>>
    /\ RerunFrame

\* The later run's loop is used up.
SecondDone ==
    /\ v_pc = "second"
    /\ v_i >= Len(RerunRecords)
    /\ v_pc' = "done"
    /\ UNCHANGED <<v_base, v_records, v_extra, v_batch_size, v_i, v_applied, v_table>>
    /\ RerunFrame

RerunNext == FirstUpsert \/ FirstDone \/ SecondStart \/ SecondUpsert \/ SecondDone

InitRerun ==
    RerunInit /\ ReportIdle /\ PageIdle /\ ChunkIdle /\ SinkIdle /\ DayIdle
    /\ OrderIdle
    /\ AdvertsIdle
    /\ DedupIdle
    /\ PaceIdle
    /\ AnalyticsIdle
    /\ ShareIdle
    /\ LoadIdle
    /\ MainIdle /\ TextsIdle /\ TagIdle /\ TokenIdle /\ EntryIdle /\ SanIdle /\ RetryIdle

SpecRerun == InitRerun /\ [][RerunNext]_vars

\* The natural keys of a record list.
KeysWritten(recs) == {<<recs[i].date, recs[i].sku>> : i \in DOMAIN recs}

\* The rows of a table that carry natural key k.
RowsWithKey(tbl, k) == {row \in tbl : <<row.date, row.sku>> = k}

LoadPipelines ==
    {"adverts_settings", "sales_funnel", "fullstats", "spp", "search_report",
     "search_texts", "normquery", "ozon_analytics", "ozon_performance"}

\* The pipelines whose records come from df.to_dict(orient="records").
DataFramePipelines == LoadPipelines \ OzonPipelines

\* What a cell of a transformed record can hold: a DataFrame cell for the WB
\* pipelines; for the Ozon pipelines the decoded JSON metric or the result of
\* _parse_int / _parse_decimal, where float(normalized) also reads "nan" and
\* "inf".
TransformedValues(p) ==
    IF p \in DataFramePipelines THEN SanValues ELSE PythonValues

\* Whether the pipeline passes its records through sanitize_records before
\* the upsert loop.
Sanitizes(p) == p \notin {"ozon_analytics", "ozon_performance"}

LoadFrame ==
    UNCHANGED <<retryVars, reportVars, pageVars, chunkVars, sinkVars, dayVars,
                sanVars, entryVars, tokenVars, tagVars, textsVars, mainVars,
                rerunVars, shareVars, analyticsVars, paceVars, dedupVars,
                advertsVars, orderVars>>

\* The transformation stage has returned a non-empty list of records (for the
\* Ozon pipelines: the records validate_record keeps).
LoadInit ==
    /\ u_pc = "transformed"
    /\ u_pipeline \in LoadPipelines
    /\ u_transformed \in
         UNION {[1..n -> [Columns -> TransformedValues(u_pipeline)]] :
                    n \in 1..MaxSanLen}
    /\ u_records = <<>>
    /\ u_batch_size \in 1..MaxBatch
    /\ u_i = 0
    /\ u_upserts = <<>>

\* records = sanitize_records(...) where the pipeline has that line; the Ozon
\* analytics and performance pipelines go on with valid_records as it is.
Prepare ==
    /\ u_pc = "transformed"
    /\ u_records' = IF Sanitizes(u_pipeline) THEN sanitize_records(u_transformed)
                    ELSE u_transformed
    /\ u_pc' = "loop"
    /\ UNCHANGED <<u_pipeline, u_transformed, u_batch_size, u_i, u_upserts>>
    /\ LoadFrame

\* for i in range(0, len(records), batch_size): upsert(records[i : i + batch_size])
UpsertBatch ==
    /\ u_pc = "loop"
    /\ u_i < Len(u_records)
    /\ u_upserts' = Append(u_upserts,
                       SubSeq(u_records, u_i + 1,
                              Min(u_i + u_batch_size, Len(u_records))))
    /\ u_i' = u_i + u_batch_size
    /\ UNCHANGED <<u_pc, u_pipeline, u_transformed, u_records, u_batch_size>>
    /\ LoadFrame

\* The range is used up.
LoadDone ==
    /\ u_pc = "loop"
    /\ u_i >= Len(u_records)
    /\ u_pc' = "done"
    /\ UNCHANGED <<u_pipeline, u_transformed, u_records, u_batch_size, u_i,
                   u_upserts>>
    /\ LoadFrame

LoadNext == Prepare \/ UpsertBatch \/ LoadDone

InitLoad ==
    LoadInit /\ ReportIdle /\ PageIdle /\ ChunkIdle /\ SinkIdle /\ DayIdle /\ RerunIdle
    /\ OrderIdle
    /\ AdvertsIdle
    /\ DedupIdle
    /\ PaceIdle
    /\ AnalyticsIdle
    /\ ShareIdle
    /\ MainIdle /\ TextsIdle /\ TagIdle /\ TokenIdle /\ EntryIdle /\ SanIdle /\ RetryIdle

SpecLoad == InitLoad /\ [][LoadNext]_vars

\* A float that is NaN or an infinity.
NanOrInfNumber(val) ==
    val.type \in {"float", "float64", "float32"} /\ val.v \in {"nan", "inf", "-inf"}

\* C26: in every pipeline each batch passed to upsert is the matching slice of
\* sanitize_records applied to the transformed records, and no record of it
\* holds a NaN or an infinity.
C26_UpsertedSanitized ==
    \A j \in DOMAIN u_upserts :
        /\ u_upserts[j] =
               SubSeq(sanitize_records(u_transformed),
                      (j - 1) * u_batch_size + 1,
                      Min(j * u_batch_size, Len(u_transformed)))
        /\ \A i \in DOMAIN u_upserts[j] : \A k \in Columns :
               ~NanOrInfNumber(u_upserts[j][i][k])

(***************************************************************************)
(* Two callers sharing one OzonPerformanceConnector in _get_access_token   *)
(***************************************************************************)
Callers == {1, 2}

\* The places of a caller that is inside _get_access_token.
Inside == {"check", "post", "answered", "token_stored"}

\* The instant of the two calls, in minutes: they follow each other at once.
CallTime == 0

ShareFrame ==
    UNCHANGED <<retryVars, reportVars, pageVars, chunkVars, sinkVars, dayVars,
                sanVars, entryVars, tokenVars, tagVars, textsVars, mainVars,
                rerunVars, loadVars, analyticsVars, paceVars, dedupVars,
                advertsVars, orderVars>>

\* A connector with no token cached, and two callers that have not called.
ShareInit ==
    /\ q_pc = [c \in Callers |-> "out"]
    /\ q_token = 0
    /\ q_expires = 0
    /\ q_requests = 0
    /\ q_answer = [c \in Callers |-> "none"]
    /\ q_expires_in = [c \in Callers |-> 0]
    /\ q_issued = [c \in Callers |-> 0]
    /\ q_got = [c \in Callers |-> 0]
    /\ q_order = <<>>
    /\ q_overlap = FALSE

\* A caller enters _get_access_token.
Enter(c) ==
    /\ q_pc[c] = "out"
    /\ q_pc' = [q_pc EXCEPT ![c] = "check"]
    /\ q_order' = Append(q_order, c)
    /\ q_overlap' = (q_overlap \/ \E o \in Callers \ {c} : q_pc[o] \in Inside)
    /\ UNCHANGED <<q_token, q_expires, q_requests, q_answer, q_expires_in,
                   q_issued, q_got>>
    /\ ShareFrame

\* if self.access_token and self.token_expires_at: if datetime.now() < ...:
\* return self.access_token; nothing guards the way to the request.
CheckCached(c) ==
    /\ q_pc[c] = "check"
    /\ IF CachedTokenValid(q_token, q_expires, CallTime)
         THEN /\ q_pc' = [q_pc EXCEPT ![c] = "done"]
              /\ q_got' = [q_got EXCEPT ![c] = q_token]
         ELSE /\ q_pc' = [q_pc EXCEPT ![c] = "post"]
              /\ UNCHANGED q_got
    /\ UNCHANGED <<q_token, q_expires, q_requests, q_answer, q_expires_in,
                   q_issued, q_order, q_overlap>>
    /\ ShareFrame

\* response = client.post(self.TOKEN_URL, json=payload): the request goes out
\* and the caller waits for its answer.
PostToken(c) ==
    /\ q_pc[c] = "post"
    /\ q_requests' = q_requests + 1
    /\ \E answer \in TokenAnswers, expires_in \in ExpiresIn :
         /\ q_answer' = [q_answer EXCEPT ![c] = answer]
         /\ q_expires_in' = [q_expires_in EXCEPT ![c] =
                                IF answer = "token" THEN expires_in ELSE 0]
         /\ q_issued' = [q_issued EXCEPT ![c] =
                            IF answer = "failed" THEN 0 ELSE q_requests + 1]
    /\ q_pc' = [q_pc EXCEPT ![c] = "answered"]
    /\ UNCHANGED <<q_token, q_expires, q_got, q_order, q_overlap>>
    /\ ShareFrame

\* response.raise_for_status(); data = response.json();
\* self.access_token = data["access_token"]
StoreToken(c) ==
    /\ q_pc[c] = "answered"
    /\ IF q_answer[c] = "failed"
         THEN /\ q_pc' = [q_pc EXCEPT ![c] = "raised"]
              /\ UNCHANGED q_token
         ELSE /\ q_pc' = [q_pc EXCEPT ![c] = "token_stored"]
              /\ q_token' = q_issued[c]
    /\ UNCHANGED <<q_expires, q_requests, q_answer, q_expires_in, q_issued,
                   q_got, q_order, q_overlap>>
    /\ ShareFrame

\* self.token_expires_at = datetime.now() + timedelta(seconds=expires_in);
\* return self.access_token
StoreExpiry(c) ==
    /\ q_pc[c] = "token_stored"
    /\ IF q_answer[c] = "bad_expires_in"
         THEN /\ q_pc' = [q_pc EXCEPT ![c] = "raised"]
              /\ UNCHANGED <<q_expires, q_got>>
         ELSE /\ q_pc' = [q_pc EXCEPT ![c] = "done"]
              /\ q_expires' = CallTime + q_expires_in[c]
              /\ q_got' = [q_got EXCEPT ![c] = q_token]
    /\ UNCHANGED <<q_token, q_requests, q_answer, q_expires_in, q_issued,
                   q_order, q_overlap>>
    /\ ShareFrame

CallerStep ==
    \E c \in Callers :
        Enter(c) \/ CheckCached(c) \/ PostToken(c) \/ StoreToken(c) \/ StoreExpiry(c)

ShareNext == CallerStep

InitShare ==
    ShareInit /\ ReportIdle /\ PageIdle /\ ChunkIdle /\ SinkIdle /\ DayIdle /\ LoadIdle
    /\ OrderIdle
    /\ AdvertsIdle
    /\ DedupIdle
    /\ PaceIdle
    /\ AnalyticsIdle
    /\ RerunIdle /\ MainIdle /\ TextsIdle /\ TagIdle /\ TokenIdle /\ EntryIdle
    /\ SanIdle /\ RetryIdle

SpecShare == InitShare /\ [][ShareNext]_vars

C33_SequentialWitness ==
    /\ Len(q_order) = 2
    /\ ~q_overlap
    /\ q_answer[q_order[1]] = "token"
    /\ q_expires_in[q_order[1]] > RefreshMargin
    /\ q_pc[q_order[2]] = "done"
    /\ q_got[q_order[2]] = 1
    /\ q_requests = 1

DimensionCounts == {1, 2}

\* The positions of the items the API returns for limit and offset.
PagePositions(data, lim, off) ==
    [i \in 1..(Min(off + lim, Len(data)) - Min(off, Len(data))) |->
        Min(off, Len(data)) + i]

\* OzonTransformer.transform_analytics_data: if len(dimensions) < 2: continue
Transformable(dims) == dims >= 2

\* The positions transform_analytics_data turns into records, in order.
RECURSIVE TransformPage(_, _)
TransformPage(data, positions) ==
    IF positions = <<>> THEN <<>>
    ELSE (IF Transformable(data[positions[1]]) THEN <<positions[1]>> ELSE <<>>)
         \o TransformPage(data, Tail(positions))

AnalyticsFrame ==
    UNCHANGED <<retryVars, reportVars, pageVars, chunkVars, sinkVars, dayVars,
                sanVars, entryVars, tokenVars, tagVars, textsVars, mainVars,
                rerunVars, loadVars, shareVars, paceVars, dedupVars, advertsVars,
                orderVars>>

\* The loop is entered: all_records = [], offset = 0, limit = 1000 (here a
\* small limit).
AnalyticsInit ==
    /\ a_pc = "loop"
    /\ a_data \in UNION {[1..n -> DimensionCounts] : n \in 0..MaxItems}
    /\ a_limit \in 1..MaxLimit
    /\ a_offset = 0
    /\ a_requests = <<>>
    /\ a_returned = <<>>
    /\ a_all_records = <<>>
    /\ a_sleeps = 0

\* One iteration of while True: fetch, transform, the two break tests, the
\* next offset and the sleep.
AnalyticsPage ==
    /\ a_pc = "loop"
    /\ LET positions == PagePositions(a_data, a_limit, a_offset)
           transformed == TransformPage(a_data, positions) IN
       /\ a_requests' = Append(a_requests, a_offset)
       /\ a_returned' = Append(a_returned, Len(positions))
       /\ IF transformed = <<>>
            THEN /\ a_pc' = "fetched"
                 /\ UNCHANGED <<a_all_records, a_offset, a_sleeps>>
            ELSE /\ a_all_records' = a_all_records \o transformed
                 /\ IF Len(transformed) < a_limit
                      THEN /\ a_pc' = "fetched"
                           /\ UNCHANGED <<a_offset, a_sleeps>>
                      ELSE /\ a_offset' = a_offset + a_limit
                           /\ a_sleeps' = a_sleeps + 1
                           /\ UNCHANGED a_pc
    /\ UNCHANGED <<a_data, a_limit>>
    /\ AnalyticsFrame

\* connector.fetch_analytics_data raises: the pipeline logs and re-raises.
AnalyticsFetchFails ==
    /\ a_pc = "loop"
    /\ a_requests' = Append(a_requests, a_offset)
    /\ a_pc' = "raised"
    /\ UNCHANGED <<a_data, a_limit, a_offset, a_returned, a_all_records, a_sleeps>>
    /\ AnalyticsFrame

AnalyticsNext == AnalyticsPage \/ AnalyticsFetchFails

InitAnalytics ==
    AnalyticsInit /\ ReportIdle /\ PageIdle /\ ChunkIdle /\ SinkIdle /\ DayIdle /\ ShareIdle
    /\ OrderIdle
    /\ AdvertsIdle
    /\ DedupIdle
    /\ PaceIdle
    /\ LoadIdle /\ RerunIdle /\ MainIdle /\ TextsIdle /\ TagIdle /\ TokenIdle
    /\ EntryIdle /\ SanIdle /\ RetryIdle

SpecAnalytics == InitAnalytics /\ [][AnalyticsNext]_vars

\* C32: the loop ends only behind a returned page that holds fewer than limit
\* items or none, a returned page of exactly limit items is followed by the
\* request at offset + limit, and when the loop has ended every item of the
\* window that can be transformed is among the records collected.
C32_StopsOnShortPage ==
    a_pc \in {"loop", "fetched"} =>
      /\ \A j \in DOMAIN a_requests : a_requests[j] = (j - 1) * a_limit
      /\ \A j \in DOMAIN a_returned :
           a_returned[j] = a_limit =>
               \/ j < Len(a_requests)
               \/ a_pc = "loop" /\ a_offset = a_requests[j] + a_limit
      /\ a_pc = "fetched" =>
           /\ a_returned[Len(a_returned)] < a_limit
           /\ \A i \in DOMAIN a_data :
                Transformable(a_data[i]) =>
                    \E k \in DOMAIN a_all_records : a_all_records[k] = i

(***************************************************************************)
(* The requests and sleeps of fetch_product_search_texts_chunked           *)
(***************************************************************************)
\* @retry_on_exception(exception_types=(httpx.HTTPError,), max_retries=3,
\* delay_seconds=5) on fetch_product_search_texts; backoff_factor keeps its
\* default 1.0.
SearchTextsMaxRetries == 3
SearchTextsDelaySeconds == 5
SearchTextsBackoff == 1

\* sleep_seconds: below the retry delay, equal to it, and the value of
\* settings.SLEEP_SECONDS, 21.
SleepSecondsValues == {1, 5, 21}

HttpRequest(idx) == [kind |-> "request", chunk |-> idx, seconds |-> 0]
Sleep(seconds) == [kind |-> "sleep", chunk |-> 0, seconds |-> seconds]

PaceFrame ==
    UNCHANGED <<retryVars, reportVars, pageVars, chunkVars, sinkVars, dayVars,
                sanVars, entryVars, tokenVars, tagVars, textsVars, mainVars,
                rerunVars, loadVars, shareVars, analyticsVars, dedupVars,
                advertsVars, orderVars>>

\* The chunk loop is entered with at least one chunk.
PaceInit ==
    /\ e_pc = "loop"
    /\ e_chunks \in 1..MaxChunks
    /\ e_idx = 1
    /\ e_attempt = 0
    /\ e_sleep_seconds \in SleepSecondsValues
    /\ e_events = <<>>

\* One HTTP request of fetch_product_search_texts for the current chunk, with
\* what follows it: on success the next chunk after time.sleep(sleep_seconds),
\* or the return behind the last chunk; on httpx.HTTPError the retry wrapper's
\* sleep of current_delay and the next attempt, or the re-raise at the third
\* failure; any other exception leaves the wrapper at once.
PaceRequest ==
    /\ e_pc = "loop"
    /\ \E outcome \in FuncOutcomes :
         CASE outcome = "ok" ->
                /\ e_attempt' = 0
                /\ IF e_idx < e_chunks
                     THEN /\ e_events' = e_events \o
                                <<HttpRequest(e_idx), Sleep(e_sleep_seconds)>>
                          /\ e_idx' = e_idx + 1
                          /\ UNCHANGED e_pc
                     ELSE /\ e_events' = Append(e_events, HttpRequest(e_idx))
                          /\ e_pc' = "returned"
                          /\ UNCHANGED e_idx
           [] Caught(outcome) ->
                /\ e_attempt' = e_attempt + 1
                /\ IF RetryGiveUp(e_attempt + 1, SearchTextsMaxRetries)
                     THEN /\ e_events' = Append(e_events, HttpRequest(e_idx))
                          /\ e_pc' = "raised"
                     ELSE /\ e_events' = e_events \o
                                <<HttpRequest(e_idx),
                                  Sleep(SearchTextsDelaySeconds
                                        * Pow(SearchTextsBackoff, e_attempt))>>
                          /\ UNCHANGED e_pc
                /\ UNCHANGED e_idx
           [] outcome # "ok" /\ ~Caught(outcome) ->
                /\ e_events' = Append(e_events, HttpRequest(e_idx))
                /\ e_pc' = "raised"
                /\ UNCHANGED <<e_idx, e_attempt>>
    /\ UNCHANGED <<e_chunks, e_sleep_seconds>>
    /\ PaceFrame

PaceNext == PaceRequest

InitPace ==
    PaceInit /\ ReportIdle /\ PageIdle /\ ChunkIdle /\ SinkIdle /\ DayIdle /\ AnalyticsIdle
    /\ OrderIdle
    /\ AdvertsIdle
    /\ DedupIdle
    /\ ShareIdle /\ LoadIdle /\ RerunIdle /\ MainIdle /\ TextsIdle /\ TagIdle
    /\ TokenIdle /\ EntryIdle /\ SanIdle /\ RetryIdle

SpecPace == InitPace /\ [][PaceNext]_vars

\* C38: within one chunked search-texts fetch, two consecutive HTTP requests
\* are separated by a sleep of at least sleep_seconds, also when the second
\* request is the re-attempt behind a transport error.
C38_RequestsSpaced ==
    \A i \in DOMAIN e_events : \A j \in DOMAIN e_events :
        (/\ i < j
         /\ e_events[i].kind = "request"
         /\ e_events[j].kind = "request"
         /\ \A k \in (i + 1)..(j - 1) : e_events[k].kind = "sleep") =>
            /\ j = i + 2
            /\ e_events[i + 1].seconds >= e_sleep_seconds

(***************************************************************************)
(* One record per conflict key: the SPP snapshot and the adverts rows      *)
(***************************************************************************)
\* An order of the orders response; 0 stands for a null nmId, spp or
\* finishedPrice.
Orders ==
    [nmId : {0, 1, 2}, spp : {0, 10, 11}, finishedPrice : {0, 900},
     isCancel : BOOLEAN]

\* A row flattened from the adverts response; 0 stands for a null nm_id.
AdvertRows == [advert_id : {1, 2}, nmid : {0, 1, 2}, bid : {"a", "b"}]

\* The day the orders were fetched for.
SnapshotDay == 1

\* The elements of a set of numbers in ascending order.
RECURSIVE Ascending(_)
Ascending(S) ==
    IF S = {} THEN <<>>
    ELSE LET least == CHOOSE x \in S : \A y \in S : x <= y IN
         <<least>> \o Ascending(S \ {least})

\* df[df["isCancel"] == False]
NotCancelled(orders) == SelectSeq(orders, LAMBDA o : o.isCancel = FALSE)

\* The aggregation "first" of a group: the first value that is not null, null
\* when there is none.
RECURSIVE FirstOf(_)
FirstOf(values) ==
    IF values = <<>> THEN 0
    ELSE IF values[1] # 0 THEN values[1]
    ELSE FirstOf(Tail(values))

\* The values of one column over the orders of one nmId.
RECURSIVE ColumnOf(_, _, _)
ColumnOf(orders, nm, column) ==
    IF orders = <<>> THEN <<>>
    ELSE (IF orders[1].nmId = nm THEN <<orders[1][column]>> ELSE <<>>)
         \o ColumnOf(Tail(orders), nm, column)

\* WBTransformer.transform_spp_snapshot: the orders that are not cancelled,
\* without those of a null nmId, grouped by nmId (groups in ascending order),
\* each group aggregated with "first".
transform_spp_snapshot(orders) ==
    LET kept == NotCancelled(orders)
        groups == Ascending({kept[i].nmId : i \in DOMAIN kept} \ {0}) IN
    [g \in DOMAIN groups |->
        [nmid |-> groups[g],
         spp |-> FirstOf(ColumnOf(kept, groups[g], "spp")),
         finished_price |-> FirstOf(ColumnOf(kept, groups[g], "finishedPrice")),
         date |-> SnapshotDay]]

\* Mutant of drop_duplicates: every row is kept.
drop_duplicates_none(rows) == rows

\* df.drop_duplicates(subset=["advert_id", "nmid"], keep="last"): a row stays
\* when no later row has its advert_id and nmid.
RECURSIVE drop_duplicates(_)
drop_duplicates(rows) ==
    IF rows = <<>> THEN <<>>
    ELSE (IF \E j \in 2..Len(rows) :
                 /\ rows[j].advert_id = rows[1].advert_id
                 /\ rows[j].nmid = rows[1].nmid
            THEN <<>> ELSE <<rows[1]>>)
         \o drop_duplicates(Tail(rows))

\* on_conflict="date,nmid" and on_conflict="advert_id,nmid"
ConflictKeyOf(pipeline, r) ==
    IF pipeline = "spp" THEN <<r.date, r.nmid>> ELSE <<r.advert_id, r.nmid>>

DedupFrame ==
    UNCHANGED <<retryVars, reportVars, pageVars, chunkVars, sinkVars, dayVars,
                sanVars, entryVars, tokenVars, tagVars, textsVars, mainVars,
                rerunVars, loadVars, shareVars, analyticsVars, paceVars,
                advertsVars, orderVars>>

\* The fetch has returned: the orders of the day, or the advert rows.
DedupInit ==
    /\ k_pc = "fetched"
    /\ k_pipeline \in {"spp", "adverts_settings"}
    /\ k_raw \in IF k_pipeline = "spp"
                   THEN UNION {[1..n -> Orders] : n \in 0..MaxOrders}
                   ELSE UNION {[1..n -> AdvertRows] : n \in 0..MaxAdvertRows}
    /\ k_records = <<>>
    /\ k_batch_size \in 1..MaxBatch
    /\ k_i = 0
    /\ k_upserts = <<>>

\* The records of the upsert loop: the snapshot, or the advert rows without
\* duplicates; an empty DataFrame ends the iteration without an upsert.
BuildRecords ==
    /\ k_pc = "fetched"
    /\ LET built == IF k_pipeline = "spp" THEN transform_spp_snapshot(k_raw)
                    ELSE drop_duplicates(k_raw) IN
       /\ k_records' = built
       /\ k_pc' = IF built = <<>> THEN "done" ELSE "loop"
    /\ UNCHANGED <<k_pipeline, k_raw, k_batch_size, k_i, k_upserts>>
    /\ DedupFrame

\* for i in range(0, len(records), batch_size): upsert(records[i : i + batch_size])
DedupUpsert ==
    /\ k_pc = "loop"
    /\ k_i < Len(k_records)
    /\ k_upserts' = Append(k_upserts,
                       SubSeq(k_records, k_i + 1,
                              Min(k_i + k_batch_size, Len(k_records))))
    /\ k_i' = k_i + k_batch_size
    /\ UNCHANGED <<k_pc, k_pipeline, k_raw, k_records, k_batch_size>>
    /\ DedupFrame

\* The range is used up.
DedupDone ==
    /\ k_pc = "loop"
    /\ k_i >= Len(k_records)
    /\ k_pc' = "done"
    /\ UNCHANGED <<k_pipeline, k_raw, k_records, k_batch_size, k_i, k_upserts>>
    /\ DedupFrame

DedupNext == BuildRecords \/ DedupUpsert \/ DedupDone

InitDedup ==
    DedupInit /\ ReportIdle /\ PageIdle /\ ChunkIdle /\ SinkIdle /\ DayIdle /\ PaceIdle
    /\ OrderIdle
    /\ AdvertsIdle
    /\ AnalyticsIdle /\ ShareIdle /\ LoadIdle /\ RerunIdle /\ MainIdle /\ TextsIdle
    /\ TagIdle /\ TokenIdle /\ EntryIdle /\ SanIdle /\ RetryIdle

SpecDedup == InitDedup /\ [][DedupNext]_vars

\* The records of all upsert calls so far, in order.
Upserted == Flatten(k_upserts)

\* Order i is the first order of its nmId that is not cancelled and carries a
\* value in the column.
FirstSeen(i, column) ==
    /\ ~k_raw[i].isCancel
    /\ k_raw[i][column] # 0
    /\ \A j \in 1..(i - 1) :
         (k_raw[j].nmId = k_raw[i].nmId /\ ~k_raw[j].isCancel) =>
             k_raw[j][column] = 0

\* The snapshot value of a column for an nmId: that of the first order seen
\* with a value, null when no order has one.
SnapshotValue(nm, column, value) ==
    \/ \E i \in DOMAIN k_raw :
         k_raw[i].nmId = nm /\ FirstSeen(i, column) /\ value = k_raw[i][column]
    \/ /\ value = 0
       /\ \A i \in DOMAIN k_raw :
            (k_raw[i].nmId = nm /\ ~k_raw[i].isCancel) => k_raw[i][column] = 0

\* The positions of the advert rows that are the last of their
\* (advert_id, nmid), in ascending order.
LastOccurrences ==
    Ascending({i \in DOMAIN k_raw :
                  \A j \in (i + 1)..Len(k_raw) :
                      ConflictKeyOf(k_pipeline, k_raw[j])
                          # ConflictKeyOf(k_pipeline, k_raw[i])})

\* C31: every batch sent to upsert by the SPP pipeline and by the adverts
\* pipeline holds at most one record per conflict key; the snapshot has one
\* row per distinct nmId of the orders that are not cancelled, with the first
\* spp and the first price seen, and the adverts records are the last row of
\* every (advert_id, nmid).
C31_OneRecordPerKey ==
    k_pc \in {"loop", "done"} =>
      /\ \A b \in DOMAIN k_upserts :
           \A i \in DOMAIN k_upserts[b] : \A j \in DOMAIN k_upserts[b] :
               ConflictKeyOf(k_pipeline, k_upserts[b][i])
                   = ConflictKeyOf(k_pipeline, k_upserts[b][j]) => i = j
      /\ \A i \in DOMAIN k_records : \A j \in DOMAIN k_records :
           ConflictKeyOf(k_pipeline, k_records[i])
               = ConflictKeyOf(k_pipeline, k_records[j]) => i = j
      /\ k_pc = "done" => Upserted = k_records
      /\ k_pipeline = "spp" =>
           /\ {k_records[i].nmid : i \in DOMAIN k_records}
                = {k_raw[i].nmId : i \in {j \in DOMAIN k_raw : ~k_raw[j].isCancel}} \ {0}
           /\ \A i \in DOMAIN k_records :
                /\ SnapshotValue(k_records[i].nmid, "spp", k_records[i].spp)
                /\ SnapshotValue(k_records[i].nmid, "finishedPrice",
                                 k_records[i].finished_price)
                /\ k_records[i].date = SnapshotDay
      /\ k_pipeline = "adverts_settings" =>
           /\ Len(k_records) = Len(LastOccurrences)
           /\ \A r \in DOMAIN k_records :
                k_records[r] = k_raw[LastOccurrences[r]]

\* C31 witness: both pipelines have sent their batches; the orders held the
\* same nmId twice, the first of them without an spp, and the advert rows
\* held one (advert_id, nmid) twice with different bids.
C31_WitnessSpp ==
    /\ k_pc = "done"
    /\ k_pipeline = "spp"
    /\ Len(k_raw) = 2
    /\ k_raw[1].nmId = 1 /\ k_raw[2].nmId = 1
    /\ k_raw[1].spp = 0 /\ k_raw[2].spp = 11
    /\ k_raw[1].finishedPrice = 900
    /\ ~k_raw[1].isCancel /\ ~k_raw[2].isCancel
    /\ k_upserts = <<<<[nmid |-> 1, spp |-> 11, finished_price |-> 900,
                        date |-> SnapshotDay]>>>>

C31_Witness ==
    /\ k_pc = "done"
    /\ k_pipeline = "adverts_settings"
    /\ Len(k_raw) = 3
    /\ k_raw[1].advert_id = k_raw[3].advert_id
    /\ k_raw[1].nmid = k_raw[3].nmid
    /\ k_raw[1].bid # k_raw[3].bid
    /\ Upserted = <<k_raw[2], k_raw[3]>>
    /\ Len(k_upserts) = 2

(***************************************************************************)
(* run_adverts_settings_pipeline: delete, then upsert                      *)
(***************************************************************************)
\* A status among settings.get_adverts_statuses(), and one outside of it.
StatusInScope == 9
StatusOutOfScope == 4

\* What the adverts table may hold before the run: rows of earlier runs in
\* the statuses that are deleted, and a row of another status.
OldRows ==
    {[key |-> 1, status |-> StatusInScope, run |-> "earlier"],
     [key |-> 2, status |-> StatusInScope, run |-> "earlier"],
     [key |-> 3, status |-> StatusOutOfScope, run |-> "earlier"]}

\* What fetch and transform yield: the keys of the rows of the DataFrame, none
\* for an empty one.
TransformedRows == {<<>>, <<1>>, <<4>>, <<1, 4>>}

\* Mutant of EmptyFrame: the empty DataFrame is not told apart.
EmptyFrameNever(rows) == FALSE

\* if df.empty: logger.warning("No adverts data to upsert"); return
EmptyFrame(rows) == rows = <<>>

\* delete().in_("status", settings.get_adverts_statuses())
DeleteInStatuses(tbl) == {r \in tbl : r.status # StatusInScope}

\* upsert(batch, on_conflict="advert_id,nmid")
RECURSIVE UpsertAdverts(_, _)
UpsertAdverts(tbl, batch) ==
    IF batch = <<>> THEN tbl
    ELSE UpsertAdverts(
             {r \in tbl : r.key # batch[1]}
                 \cup {[key |-> batch[1], status |-> StatusInScope, run |-> "this"]},
             Tail(batch))

AdvertsFrame ==
    UNCHANGED <<retryVars, reportVars, pageVars, chunkVars, sinkVars, dayVars,
                sanVars, entryVars, tokenVars, tagVars, textsVars, mainVars,
                rerunVars, loadVars, shareVars, analyticsVars, paceVars,
                dedupVars, orderVars>>

AdvertsInit ==
    /\ b_pc = "start"
    /\ b_before \in SUBSET OldRows
    /\ b_table = b_before
    /\ b_rows = <<>>
    /\ b_batch_size \in 1..MaxBatch
    /\ b_i = 0
    /\ b_calls = <<>>
    /\ b_error = "none"

\* raw_data = connector.fetch_adverts(); df = WBTransformer.transform_adverts(...);
\* if df.empty: return.  Either call can raise, which the outer handler logs
\* and re-raises.
AdvertsFetch ==
    /\ b_pc = "start"
    /\ \E outcome \in {"fetch_fails", "transform_fails", "transformed"} :
         IF outcome = "transformed"
           THEN \E rows \in TransformedRows :
                  /\ b_rows' = rows
                  /\ b_pc' = IF EmptyFrame(rows) THEN "returned" ELSE "delete"
                  /\ UNCHANGED b_error
           ELSE /\ b_pc' = "raised"
                /\ b_error' = outcome
                /\ UNCHANGED b_rows
    /\ UNCHANGED <<b_before, b_table, b_batch_size, b_i, b_calls>>
    /\ AdvertsFrame

\* try: delete()...execute() except Exception: logger.warning(...); then
\* drop_duplicates and sanitize_records.
AdvertsDelete ==
    /\ b_pc = "delete"
    /\ \E ok \in BOOLEAN :
         IF ok
           THEN /\ b_table' = DeleteInStatuses(b_table)
                /\ b_calls' = Append(b_calls, "delete")
           ELSE /\ b_calls' = Append(b_calls, "delete_failed")
                /\ UNCHANGED b_table
    /\ b_pc' = "upsert"
    /\ UNCHANGED <<b_before, b_rows, b_batch_size, b_i, b_error>>
    /\ AdvertsFrame

\* One iteration of the upsert loop; a failing upsert leaves the pipeline
\* through the outer handler.
AdvertsUpsert ==
    /\ b_pc = "upsert"
    /\ b_i < Len(b_rows)
    /\ \E ok \in BOOLEAN :
         IF ok
           THEN /\ b_table' = UpsertAdverts(b_table,
                                  SubSeq(b_rows, b_i + 1,
                                         Min(b_i + b_batch_size, Len(b_rows))))
                /\ b_calls' = Append(b_calls, "upsert")
                /\ b_i' = b_i + b_batch_size
                /\ UNCHANGED <<b_pc, b_error>>
           ELSE /\ b_calls' = Append(b_calls, "upsert_failed")
                /\ b_pc' = "raised"
                /\ b_error' = "upsert"
                /\ UNCHANGED <<b_table, b_i>>
    /\ UNCHANGED <<b_before, b_rows, b_batch_size>>
    /\ AdvertsFrame

\* The range is used up: the completion line is logged.
AdvertsDone ==
    /\ b_pc = "upsert"
    /\ b_i >= Len(b_rows)
    /\ b_pc' = "completed"
    /\ UNCHANGED <<b_before, b_table, b_rows, b_batch_size, b_i, b_calls, b_error>>
    /\ AdvertsFrame

AdvertsNext == AdvertsFetch \/ AdvertsDelete \/ AdvertsUpsert \/ AdvertsDone

InitAdverts ==
    AdvertsInit /\ ReportIdle /\ PageIdle /\ ChunkIdle /\ SinkIdle /\ DayIdle /\ DedupIdle
    /\ OrderIdle
    /\ PaceIdle /\ AnalyticsIdle /\ ShareIdle /\ LoadIdle /\ RerunIdle /\ MainIdle
    /\ TextsIdle /\ TagIdle /\ TokenIdle /\ EntryIdle /\ SanIdle /\ RetryIdle

SpecAdverts == InitAdverts /\ [][AdvertsNext]_vars

\* C36: the delete is issued only after a non-empty transformed set has been
\* obtained; a run whose fetch or transform fails, or yields no rows, issues
\* no call on the adverts table and leaves it as it was; and a failed delete
\* is followed by the upsert loop, which on completion has written every
\* transformed row.
C36_DeleteAfterTransform ==
    b_pc # "idle" =>
      /\ b_calls # <<>> =>
           /\ b_rows # <<>>
           /\ b_calls[1] \in {"delete", "delete_failed"}
           /\ \A n \in 2..Len(b_calls) : b_calls[n] \in {"upsert", "upsert_failed"}
      /\ (\/ b_pc \in {"start", "delete", "returned"}
          \/ b_error \in {"fetch_fails", "transform_fails"}) =>
           /\ b_calls = <<>>
           /\ b_table = b_before
      /\ b_pc = "returned" => b_rows = <<>>
      /\ (b_calls # <<>> /\ b_calls[1] = "delete_failed") =>
           /\ b_pc \in {"upsert", "completed", "raised"}
           /\ b_pc = "raised" => b_error = "upsert"
           /\ b_pc = "completed" =>
                /\ Len(b_calls) > 1
                /\ \A n \in DOMAIN b_rows :
                     [key |-> b_rows[n], status |-> StatusInScope, run |-> "this"]
                         \in b_table

\* C36 witness: the delete failed and the run went on to upsert both rows.
C36_Witness ==
    /\ b_pc = "completed"
    /\ b_rows = <<1, 4>>
    /\ b_calls[1] = "delete_failed"
    /\ b_calls[Len(b_calls)] = "upsert"
    /\ [key |-> 2, status |-> StatusInScope, run |-> "earlier"] \in b_table
    /\ [key |-> 4, status |-> StatusInScope, run |-> "this"] \in b_table

\* A run whose fetch failed: no call on the table, which is as it was.
C36_WitnessUnchanged ==
    /\ b_pc = "raised"
    /\ b_error = "fetch_fails"
    /\ b_before # {}
    /\ b_table = b_before
    /\ b_calls = <<>>

(***************************************************************************)
(* main(): the search report pipeline, then the search texts pipeline      *)
(***************************************************************************)
\* Mutant of StageOrder: the search texts flag is tested first.
StageOrderTextsFirst == <<"search_texts", "search_report">>

\* The order of the two flag tests at the end of main().
StageOrder == <<"search_report", "search_texts">>

\* if settings.RUN_SEARCH_REPORT: / if settings.RUN_SEARCH_TEXTS:
RunFlag(p) == IF p = "search_report" THEN o_run_report ELSE o_run_texts

Event(p, op, day) == [pipeline |-> p, op |-> op, day |-> day]

\* upsert(records, on_conflict="nm_id,period_start,period_end") of the records
\* of one day: the table has rows of that day afterwards.
UpsertReport(tbl, day) == tbl \cup {day}

OrderFrame ==
    UNCHANGED <<retryVars, reportVars, pageVars, chunkVars, sinkVars, dayVars,
                sanVars, entryVars, tokenVars, tagVars, textsVars, mainVars,
                rerunVars, loadVars, shareVars, analyticsVars, paceVars,
                dedupVars, advertsVars>>

\* Both pipelines get the same window; main() hands (date_to, date_to), the
\* functions accept any range.  The table may hold rows of earlier runs.
OrderInit ==
    /\ o_pc = "main"
    /\ o_run_report \in BOOLEAN
    /\ o_run_texts \in BOOLEAN
    /\ o_from \in 1..MaxWindow
    /\ o_to \in o_from..MaxWindow
    /\ o_stage = 1
    /\ o_current = 0
    /\ o_table \in SUBSET (1..MaxWindow)
    /\ o_events = <<>>

\* One flag test of main(): the pipeline is called when its flag is set.
OrderCall ==
    /\ o_pc = "main"
    /\ o_stage <= Len(StageOrder)
    /\ IF RunFlag(StageOrder[o_stage])
         THEN /\ o_pc' = StageOrder[o_stage]
              /\ o_current' = o_from
              /\ UNCHANGED o_stage
         ELSE /\ o_stage' = o_stage + 1
              /\ UNCHANGED <<o_pc, o_current>>
    /\ UNCHANGED <<o_run_report, o_run_texts, o_from, o_to, o_table, o_events>>
    /\ OrderFrame

\* One iteration of the day loop of run_search_report_pipeline: the fetch
\* yields no groups or fails, or the records are upserted, all of them or
\* up to a batch that fails; the handler of the day logs every exception.
ReportDay ==
    /\ o_pc = "search_report"
    /\ o_current <= o_to
    /\ \E outcome \in {"no_groups", "fetch_fails", "upserted", "upsert_fails"} :
         CASE outcome \in {"no_groups", "fetch_fails"} ->
                UNCHANGED <<o_table, o_events>>
           [] outcome = "upserted" ->
                /\ o_table' = UpsertReport(o_table, o_current)
                /\ o_events' = o_events \o
                       <<Event("search_report", "upsert", o_current),
                         Event("search_report", "upsert", o_current)>>
           [] outcome = "upsert_fails" ->
                /\ o_table' = UpsertReport(o_table, o_current)
                /\ o_events' = o_events \o
                       <<Event("search_report", "upsert", o_current),
                         Event("search_report", "upsert_failed", o_current)>>
    /\ o_current' = o_current + 1
    /\ UNCHANGED <<o_pc, o_run_report, o_run_texts, o_from, o_to, o_stage>>
    /\ OrderFrame

\* One iteration of the day loop of run_search_texts_pipeline: the select on
\* the search report table, then, when it found product ids, the fetch and
\* the upsert of the texts.
TextsDay ==
    /\ o_pc = "search_texts"
    /\ o_current <= o_to
    /\ \E outcome \in {"select_fails", "no_items", "upserted"} :
         CASE outcome = "select_fails" ->
                o_events' = Append(o_events,
                                Event("search_texts", "select_failed", o_current))
           [] outcome = "no_items" \/ o_current \notin o_table ->
                o_events' = Append(o_events,
                    Event("search_texts",
                          IF o_current \in o_table THEN "select_found"
                                                   ELSE "select_empty",
                          o_current))
           [] OTHER ->
                o_events' = o_events \o
                    <<Event("search_texts", "select_found", o_current),
                      Event("search_texts", "upsert", o_current)>>
    /\ o_current' = o_current + 1
    /\ UNCHANGED <<o_pc, o_run_report, o_run_texts, o_from, o_to, o_stage, o_table>>
    /\ OrderFrame

\* current_date has passed date_to: the pipeline logs its completion and
\* returns to main().
PipelineReturn ==
    /\ o_pc \in {"search_report", "search_texts"}
    /\ o_current > o_to
    /\ o_events' = Append(o_events, Event(o_pc, "return", 0))
    /\ o_pc' = "main"
    /\ o_stage' = o_stage + 1
    /\ UNCHANGED <<o_run_report, o_run_texts, o_from, o_to, o_current, o_table>>
    /\ OrderFrame

\* Both flag tests are behind.
OrderDone ==
    /\ o_pc = "main"
    /\ o_stage > Len(StageOrder)
    /\ o_pc' = "done"
    /\ UNCHANGED <<o_run_report, o_run_texts, o_from, o_to, o_stage, o_current,
                   o_table, o_events>>
    /\ OrderFrame

OrderNext == OrderCall \/ ReportDay \/ TextsDay \/ PipelineReturn \/ OrderDone

InitOrder ==
    OrderInit /\ ReportIdle /\ PageIdle /\ ChunkIdle /\ SinkIdle /\ DayIdle /\ AdvertsIdle
    /\ DedupIdle /\ PaceIdle /\ AnalyticsIdle /\ ShareIdle /\ LoadIdle /\ RerunIdle
    /\ MainIdle /\ TextsIdle /\ TagIdle /\ TokenIdle /\ EntryIdle /\ SanIdle /\ RetryIdle

SpecOrder == InitOrder /\ [][OrderNext]_vars

\* A select of the search texts pipeline on the search report table.
IsSelect(e) ==
    /\ e.pipeline = "search_texts"
    /\ e.op \in {"select_found", "select_empty", "select_failed"}

\* C39: when both flags are set, every select of the search texts pipeline on
\* the search report table comes after the return of the search report
\* pipeline of the same run and after every call that pipeline made on the
\* table, so a day the report pipeline wrote is found by the select of that
\* day; no call of the report pipeline follows a select.
C39_ReportBeforeTexts ==
    (o_run_report /\ o_run_texts) =>
        \A i \in DOMAIN o_events :
            IsSelect(o_events[i]) =>
                /\ \E j \in 1..(i - 1) :
                     o_events[j] = Event("search_report", "return", 0)
                /\ \A j \in DOMAIN o_events :
                     o_events[j].pipeline = "search_report" => j < i
                /\ (\E j \in DOMAIN o_events :
                      o_events[j] = Event("search_report", "upsert", o_events[i].day))
                       => o_events[i].op # "select_empty"

\* C39 witness: both flags set, the report pipeline wrote a day that had no
\* rows before, and the texts pipeline found that day and upserted its texts.
C39_Witness ==
    /\ o_pc = "done"
    /\ o_run_report /\ o_run_texts
    /\ \E i, j \in DOMAIN o_events :
         /\ i < j
         /\ o_events[i].pipeline = "search_report"
         /\ o_events[i].op = "upsert"
         /\ o_events[j].pipeline = "search_texts"
         /\ o_events[j].op = "select_found"
         /\ o_events[j].day = o_events[i].day
    /\ \E j \in DOMAIN o_events : o_events[j] = Event("search_texts", "upsert", o_to)
    /\ o_from < o_to

(***************************************************************************)
(* The whole program: any one machine started, the others idle.            *)
(***************************************************************************)
Init == InitRetry \/ InitReport \/ InitPage \/ InitChunk \/ InitSink \/ InitDay
        \/ InitSan \/ InitEntry \/ InitToken \/ InitTag \/ InitTexts \/ InitMain \/ InitRerun \/ InitLoad \/ InitShare \/ InitAnalytics \/ InitPace \/ InitDedup \/ InitAdverts \/ InitOrder

Next == RetryNext \/ ReportNext \/ PageNext \/ ChunkNext \/ SinkNext \/ DayNext
        \/ SanNext \/ EntryNext \/ TokenNext \/ TagNext \/ TextsNext \/ MainNext \/ RerunNext \/ LoadNext \/ ShareNext \/ AnalyticsNext \/ PaceNext \/ DedupNext \/ AdvertsNext \/ OrderNext

Spec == Init /\ [][Next]_vars

====
